---- MODULE Spec2Model ----
(***************************************************************************)
(* Keyword-query engine of the content watcher: the endpoint health        *)
(* monitor (src/src/api_health_monitor.py), the batch client               *)
(* (src/src/keyword_api.py) and the query strategies                       *)
(* (src/src/keyword_query_strategies.py).                                  *)
(*                                                                         *)
(* Time is counted in whole seconds.  The monitor stores circuit_open_time *)
(* as a wall-clock stamp and only ever reads time.time() - stamp, so the   *)
(* model keeps the elapsed seconds since the stamp, saturated one above    *)
(* the recovery interval.  time.sleep(d) advances the clock by d; Tick     *)
(* lets any further time pass.                                             *)
(***************************************************************************)
EXTENDS Integers, Sequences, FiniteSets, Bags, TLC

\* ------------------------------------------------------------- bounds
\* HTTP requests issued per endpoint
MaxAttempts == 7
\* keywords in one list handed to the orchestrator
MaxInput == 3
\* items in the data of one API response
MaxItems == 1
\* calls of the orchestrator with a non-empty list
MaxCalls == 1
\* consecutive calls of one orchestrator that keeps its endpoints' health
MaxPoolRuns == 2
\* requests on record of an endpoint when the monitor is asked about it
MaxCount == 10
\* unique keywords in a list handed to the single-endpoint client
MaxKeywords == 12
\* outcomes recorded for one endpoint by direct calls of record_request
MaxRecords == 2
MaxOutcomes == 4
\* crawl cycles of one site
MaxCycles == 2
\* the last date of the crawl
MaxDay == 2

\* -------------------------------------------------- program constants
ApiRetryMax == 2
ApiHealthCheckInterval == 30
ApiCircuitBreakerThreshold == 3
ApiRequestInterval == 2
KeywordsBatchSize == 5
MaxRecoveryInterval == 15
MinKeywordLen == 2
MaxKeywordLen == 80
NoTime == -1
MaxWorkers == 2
BatchInterval == 2
MaxWaitTime == 120
JoinTimeout == 10

Threads == {1, 2}
Endpoints == {1, 2}
GlobalApi == 1
\* the thread that calls the orchestrator
Orchestrator == 0

Min(a, b) == IF a < b THEN a ELSE b
Max(a, b) == IF a > b THEN a ELSE b

\* max_queue_workers of QueueSchedulerStrategy
MaxQueueWorkers == Max(1, Min(MaxWorkers, Cardinality(Endpoints)))
\* the threads of the watcher and, behind them, the workers of later calls
AllThreads == 1..(MaxQueueWorkers * MaxPoolRuns)

RecoveryInterval == Min(ApiHealthCheckInterval, MaxRecoveryInterval)
AgeCap == RecoveryInterval + 1

\* ------------------------------------------------------------ strings
\* A keyword is a sequence of one-character strings.
UpperChars == {"G", "T"}
SpaceChars == {" "}
NonAsciiChars == {"<e9>"}
WordChars == {"g", "t", "s", "a", "n", "G", "T", "_"}

ToLower(c) == CASE c = "G" -> "g" [] c = "T" -> "t" [] OTHER -> c

Lower(s) == [i \in 1..Len(s) |-> ToLower(s[i])]

RECURSIVE LStrip(_)
LStrip(s) == IF s # <<>> /\ Head(s) \in SpaceChars THEN LStrip(Tail(s)) ELSE s

RECURSIVE RStrip(_)
RStrip(s) ==
    IF s # <<>> /\ s[Len(s)] \in SpaceChars THEN RStrip(SubSeq(s, 1, Len(s) - 1)) ELSE s

Strip(s) == RStrip(LStrip(s))

\* str.split(): the maximal runs of non-space characters, in order
RECURSIVE SplitAcc(_, _, _)
SplitAcc(s, cur, acc) ==
    IF s = <<>> THEN (IF cur = <<>> THEN acc ELSE Append(acc, cur))
    ELSE IF Head(s) \in SpaceChars
         THEN SplitAcc(Tail(s), <<>>, IF cur = <<>> THEN acc ELSE Append(acc, cur))
         ELSE SplitAcc(Tail(s), Append(cur, Head(s)), acc)

Split(s) == SplitAcc(s, <<>>, <<>>)

\* sep.join(parts)
RECURSIVE Join(_, _)
Join(parts, sep) ==
    IF parts = <<>> THEN <<>>
    ELSE IF Len(parts) = 1 THEN parts[1]
    ELSE parts[1] \o sep \o Join(Tail(parts), sep)

CollapseSpaces(s) == Join(Split(s), <<" ">>)

\* the stop words that can be written with the characters above
StopWords == { <<"a">>, <<"a", "n">>, <<"a", "t">> }

\* re.sub(r'[^\w\s\-\']', ' ', s)
ReplaceSpecial(s) ==
    [i \in 1..Len(s) |->
        IF s[i] \in WordChars \cup SpaceChars \cup {"-", "'"} THEN s[i] ELSE " "]

normalize_keyword(keyword) ==
    IF keyword = <<>> THEN <<>>
    ELSE LET n1 == Lower(Strip(keyword)) IN
      IF n1 = <<>> THEN <<>>
      ELSE LET n2 == CollapseSpaces(n1) IN
        IF \E i \in 1..Len(n2) : n2[i] \in NonAsciiChars THEN <<>>
        ELSE LET n3 == CollapseSpaces(ReplaceSpecial(n2)) IN
          IF Len(n3) < MinKeywordLen THEN <<>>
          ELSE LET n4 == IF Len(n3) > MaxKeywordLen
                         THEN Strip(SubSeq(n3, 1, MaxKeywordLen)) ELSE n3
                   words == Split(n4)
               IN IF \A i \in 1..Len(words) : words[i] \in StopWords THEN <<>> ELSE n4

\* ------------------------------------------------------ health monitor
VARIABLES
    api_status,   \* APIHealthMonitor.api_status, per endpoint
    thr,          \* the threads running KeywordAPI.batch_query_keywords
    attempts,     \* history: HTTP GETs issued per endpoint
    streak,       \* history: failures recorded per endpoint since its circuit was
                  \* last closed with a zero count (registration, success, recovery)
    trial,        \* history: per endpoint, the thread (if any) whose is_api_available
                  \* call admitted a recovery trial that is still under way
    run,          \* the orchestrator's call: mode, input, task queue, results, and
                  \* (history) the bag of keywords it has put on the wire
    mon,          \* APIHealthMonitor.lock and the callers of the monitor's methods
    site          \* the site watcher: stored snapshot, sitemap and the cycle's work

vars == <<api_status, thr, attempts, streak, trial, run, mon, site>>

\* the state of the batch client and the orchestrator
core == <<api_status, thr, attempts, streak, trial, run>>
\* the state they leave alone
others == <<mon, site>>

\* the threads that call the methods of the monitor
Callers == {1, 2}

\* a caller outside the monitor: done and ret are the frame and the value of
\* the call that returned last (None is 0), request the endpoint its
\* requests.get is waiting for (0: none)
IdleCall == [stack |-> <<>>, done |-> <<>>, ret |-> <<>>, request |-> 0]

\* no caller is in a method of the monitor, the lock is free, no response
\* time has been recorded; recorded counts the record_request calls that
\* have returned for an endpoint since its APIHealthStatus was created
IdleMonitor ==
    [lock |-> 0, call |-> [c \in Callers |-> IdleCall],
     recent_response_times |-> [e \in {1, 2} |-> <<>>],
     recorded |-> [e \in {1, 2} |-> [calls |-> 0, successes |-> 0]]]

\* the watcher has stored nothing and has no cycle under way
NoSiteData == [updated_urls |-> <<>>, url_keywords_map |-> <<>>, keywords |-> <<>>,
               new_encrypted_data |-> <<>>, is_first_run |-> FALSE]
NoSite == [phase |-> "idle", today |-> 1, cycles |-> 0, previous_data |-> <<>>,
           sitemap_data |-> <<>>, found_urls |-> <<>>, site_data |-> NoSiteData,
           global_keyword_data |-> <<>>, submitted |-> <<>>]

OthersInit == mon = IdleMonitor /\ site = NoSite

NewStatus == [registered |-> TRUE, consecutive_failures |-> 0, total_requests |-> 0,
              successful_requests |-> 0, is_circuit_open |-> FALSE,
              circuit_open_time |-> NoTime]

NoStatus == [NewStatus EXCEPT !.registered = FALSE]

\* success_rate > num/den, on the exact quotient
SuccessRateAbove(st, num, den) ==
    IF st.total_requests = 0 THEN den > num
    ELSE st.successful_requests * den > num * st.total_requests

is_healthy(st) ==
    /\ ~st.is_circuit_open
    /\ st.consecutive_failures < ApiCircuitBreakerThreshold
    /\ SuccessRateAbove(st, 1, 2)

register_api(status, e) ==
    IF status[e].registered THEN status ELSE [status EXCEPT ![e] = NewStatus]

RecordRequestStrict(st, success) ==
    IF success
    THEN [st EXCEPT !.total_requests = @ + 1,
                    !.successful_requests = @ + 1,
                    !.consecutive_failures = 0,
                    !.is_circuit_open = FALSE,
                    !.circuit_open_time = IF st.is_circuit_open THEN NoTime ELSE @]
    ELSE LET cf == st.consecutive_failures + 1
             opens == cf > ApiCircuitBreakerThreshold /\ ~st.is_circuit_open
         IN [st EXCEPT !.total_requests = @ + 1,
                       !.consecutive_failures = cf,
                       !.is_circuit_open = @ \/ opens,
                       !.circuit_open_time = IF opens THEN 0 ELSE @]

\* record_request on a registered endpoint's status
RecordRequest(st, success) ==
    IF success
    THEN [st EXCEPT !.total_requests = @ + 1,
                    !.successful_requests = @ + 1,
                    !.consecutive_failures = 0,
                    !.is_circuit_open = FALSE,
                    !.circuit_open_time = IF st.is_circuit_open THEN NoTime ELSE @]
    ELSE LET cf == st.consecutive_failures + 1
             opens == cf >= ApiCircuitBreakerThreshold /\ ~st.is_circuit_open
         IN [st EXCEPT !.total_requests = @ + 1,
                       !.consecutive_failures = cf,
                       !.is_circuit_open = @ \/ opens,
                       !.circuit_open_time = IF opens THEN 0 ELSE @]

\* an is_api_available that lets every request pass
AlwaysAvailable(st) == TRUE

\* is_api_available: the value returned
IsApiAvailable(st) ==
    IF ~st.registered THEN TRUE
    ELSE IF st.is_circuit_open THEN st.circuit_open_time > RecoveryInterval
    ELSE is_healthy(st)

\* is_api_available admits a recovery trial
AdmitsTrial(st) ==
    st.registered /\ st.is_circuit_open /\ st.circuit_open_time > RecoveryInterval

\* an is_api_available that closes the circuit for the trial and keeps the
\* count of failures
AfterIsApiAvailableKeepsCount(st) ==
    IF AdmitsTrial(st) THEN [st EXCEPT !.is_circuit_open = FALSE] ELSE st

\* an is_api_available that also forgets when the circuit opened
AfterIsApiAvailableClearsTime(st) ==
    IF AdmitsTrial(st)
    THEN [st EXCEPT !.is_circuit_open = FALSE, !.consecutive_failures = 0,
                    !.circuit_open_time = NoTime]
    ELSE st

\* is_api_available: the status it leaves
AfterIsApiAvailable(st) ==
    IF AdmitsTrial(st)
    THEN [st EXCEPT !.is_circuit_open = FALSE, !.consecutive_failures = 0]
    ELSE st

\* the circuit is open and the recovery interval has not elapsed
CircuitBlocks(st) == st.is_circuit_open /\ st.circuit_open_time <= RecoveryInterval

\* a get_adaptive_batch_size that takes the thresholds as reached, not exceeded
AdaptiveBatchSizeAtLeast(st) ==
    IF ~st.registered THEN 5
    ELSE IF ~SuccessRateAbove(st, 9, 10) /\ st.successful_requests * 10 = 9 * st.total_requests
    THEN 5
    ELSE IF SuccessRateAbove(st, 9, 10) THEN 5
    ELSE IF SuccessRateAbove(st, 7, 10) THEN 4
    ELSE IF SuccessRateAbove(st, 1, 2) THEN 3
    ELSE 2

get_adaptive_batch_size(st) ==
    IF ~st.registered THEN 5
    ELSE IF SuccessRateAbove(st, 9, 10) THEN 5
    ELSE IF SuccessRateAbove(st, 7, 10) THEN 4
    ELSE IF SuccessRateAbove(st, 1, 2) THEN 3
    ELSE 2

\* a get_adaptive_interval that paces the best endpoints more slowly than
\* the good ones
AdaptiveIntervalRising(st, request_interval) ==
    LET base_interval == Max(request_interval, 2) IN
    IF ~st.registered THEN base_interval * 10
    ELSE IF st.consecutive_failures > 0
         THEN base_interval * Min(st.consecutive_failures + 1, 4) * 10
    ELSE IF SuccessRateAbove(st, 95, 100) THEN base_interval * 12
    ELSE IF SuccessRateAbove(st, 8, 10) THEN base_interval * 10
    ELSE base_interval * 15

\* get_adaptive_interval in tenths of a second, for a configured
\* api_request_interval of request_interval seconds
AdaptiveInterval(st, request_interval) ==
    LET base_interval == Max(request_interval, 2) IN
    IF ~st.registered THEN base_interval * 10
    ELSE IF st.consecutive_failures > 0
         THEN base_interval * Min(st.consecutive_failures + 1, 4) * 10
    ELSE IF SuccessRateAbove(st, 95, 100) THEN base_interval * 10
    ELSE IF SuccessRateAbove(st, 8, 10) THEN base_interval * 12
    ELSE base_interval * 15

AdaptiveIntervalTenths(st) == AdaptiveInterval(st, ApiRequestInterval)

\* get_adaptive_interval, in whole seconds (base * 1.2 and base * 1.5 rounded down)
get_adaptive_interval(st) == AdaptiveIntervalTenths(st) \div 10

\* get_health_summary: the entries of the registered endpoints
get_health_summary(status) ==
    [e \in {a \in DOMAIN status : status[a].registered} |->
        [is_healthy |-> is_healthy(status[e]),
         successful_requests |-> status[e].successful_requests,
         total_requests |-> status[e].total_requests,
         consecutive_failures |-> status[e].consecutive_failures,
         is_circuit_open |-> status[e].is_circuit_open]]

\* reset_api_status: a registered endpoint gets a fresh APIHealthStatus
reset_api_status(status, e) ==
    IF status[e].registered THEN [status EXCEPT ![e] = NewStatus] ELSE status

\* d seconds pass
Elapse(status, d) ==
    [e \in Endpoints |->
        IF status[e].circuit_open_time = NoTime THEN status[e]
        ELSE [status[e] EXCEPT !.circuit_open_time = Min(@ + d, AgeCap)]]

\* ---------------------------------------------------- monitor methods
\* The methods of APIHealthMonitor as their callers run them: each method
\* enters `with self.lock` (threading.Lock, not reentrant), runs its body and
\* leaves. A frame is one method invocation; got is the value the method it
\* called has returned (<<>>: none yet), loaded the total_requests that
\* `status.total_requests += 1` has read and not yet stored.
Frame(method, api, success, response_time, api_urls) ==
    [i |-> 1, success |-> success, method |-> method, api |-> api,
     response_time |-> response_time, api_urls |-> api_urls,
     pc |-> "acquire", available_apis |-> <<>>, got |-> <<>>, loaded |-> 0]

Top(c) == mon.call[c].stack[Len(mon.call[c].stack)]

\* the monitor m after the top frame of caller c has returned value
ReturnFrom(m, c, value, unlock) ==
    LET stack == m.call[c].stack
        below == SubSeq(stack, 1, Len(stack) - 1)
    IN [m EXCEPT
          !.lock = IF unlock THEN 0 ELSE @,
          !.call[c] =
             IF below = <<>>
             THEN [@ EXCEPT !.stack = <<>>, !.done = <<stack[Len(stack)]>>,
                            !.ret = <<value>>]
             ELSE [@ EXCEPT !.stack = [below EXCEPT ![Len(below)].got = <<value>>]]]

\* the monitor m after the top frame of caller c has called a method
CallFrom(m, c, frame) ==
    [m EXCEPT !.call[c].stack = Append(@, frame)]

RECURSIVE SumSeq(_)
SumSeq(q) == IF q = <<>> THEN 0 ELSE Head(q) + SumSeq(Tail(q))

\* recent_response_times after record_request(api, success, response_time)
RecordResponseTime(times, success, response_time) ==
    IF success /\ response_time > 0
    THEN LET all == Append(times, response_time)
         IN IF Len(all) > 10 THEN Tail(all) ELSE all
    ELSE times

\* the score of get_best_api, success_rate * 100 - average_response_time,
\* as the fraction num/den
BestApiScore(st, times) ==
    IF ~st.registered THEN [num |-> 100, den |-> 1]
    ELSE LET s == IF st.total_requests = 0 THEN 1 ELSE st.successful_requests
             t == IF st.total_requests = 0 THEN 1 ELSE st.total_requests
             n == IF times = <<>> THEN 1 ELSE Len(times)
         IN [num |-> s * 100 * n - SumSeq(times) * t, den |-> t * n]

\* available_apis.sort(key=score, reverse=True)[0][0]: the first entry none
\* of the others beats
BestOf(available_apis) ==
    LET best == CHOOSE i \in 1..Len(available_apis) :
                   /\ \A j \in 1..Len(available_apis) :
                         available_apis[j].score.num * available_apis[i].score.den
                            <= available_apis[i].score.num * available_apis[j].score.den
                   /\ \A j \in 1..(i - 1) :
                         available_apis[j].score.num * available_apis[i].score.den
                            < available_apis[i].score.num * available_apis[j].score.den
    IN available_apis[best].api

\* a caller invokes a method of the monitor
MonitorCall(c, frame) ==
    /\ mon.call[c].stack = <<>>
    /\ mon.call[c].request = 0
    /\ mon' = [mon EXCEPT !.call[c] = [@ EXCEPT !.stack = <<[frame EXCEPT !.pc = "acquire"]>>,
                                                !.done = <<>>, !.ret = <<>>]]
    /\ UNCHANGED <<core, site>>

\* a `with self.lock` that does not wait for the lock
AcquireUnlocked(c) ==
    /\ mon.call[c].stack # <<>>
    /\ Top(c).pc = "acquire"
    /\ mon' = [mon EXCEPT !.lock = c,
                          !.call[c].stack[Len(mon.call[c].stack)].pc = "locked"]
    /\ UNCHANGED <<core, site>>

\* `with self.lock` of the method on top of c's stack
Acquire(c) ==
    /\ mon.call[c].stack # <<>>
    /\ Top(c).pc = "acquire"
    /\ mon.lock = 0
    /\ mon' = [mon EXCEPT !.lock = c,
                          !.call[c].stack[Len(mon.call[c].stack)].pc = "locked"]
    /\ UNCHANGED <<core, site>>

\* the body of the method on top of c's stack, up to its next call or its return
MonitorStep(c) ==
    /\ mon.call[c].stack # <<>>
    /\ Top(c).pc \in {"locked", "loaded", "unlocked"}
    /\ LET f == Top(c)
           n == Len(mon.call[c].stack)
           st == api_status[f.api]
       IN CASE f.method = "register_api" ->
                 /\ api_status' = register_api(api_status, f.api)
                 /\ mon' = ReturnFrom(mon, c, 0, TRUE)
                 /\ UNCHANGED streak
            [] f.method = "is_api_available" ->
                 /\ api_status' = [api_status EXCEPT ![f.api] = AfterIsApiAvailable(st)]
                 /\ streak' = [streak EXCEPT ![f.api] = IF AdmitsTrial(st) THEN 0 ELSE @]
                 /\ mon' = ReturnFrom(mon, c, IsApiAvailable(st), TRUE)
            [] f.method = "get_adaptive_batch_size" ->
                 /\ mon' = ReturnFrom(mon, c, get_adaptive_batch_size(st), TRUE)
                 /\ UNCHANGED <<api_status, streak>>
            [] f.method = "get_adaptive_interval" ->
                 /\ mon' = ReturnFrom(mon, c, AdaptiveIntervalTenths(st), TRUE)
                 /\ UNCHANGED <<api_status, streak>>
            [] f.method = "get_health_summary" ->
                 /\ mon' = ReturnFrom(mon, c, get_health_summary(api_status), TRUE)
                 /\ UNCHANGED <<api_status, streak>>
            [] f.method = "reset_api_status" ->
                 /\ api_status' = reset_api_status(api_status, f.api)
                 /\ streak' = [streak EXCEPT ![f.api] = 0]
                 /\ mon' = ReturnFrom(
                       [mon EXCEPT !.recent_response_times[f.api] =
                           IF st.registered THEN <<>> ELSE @,
                                   !.recorded[f.api] =
                           IF st.registered THEN [calls |-> 0, successes |-> 0] ELSE @],
                       c, 0, TRUE)
            [] f.method = "record_request" ->
                 IF ~st.registered
                 THEN /\ mon' = CallFrom(mon, c, Frame("register_api", f.api, FALSE, 0, <<>>))
                      /\ UNCHANGED <<api_status, streak>>
                 ELSE IF f.pc = "locked"
                 THEN /\ mon' = [mon EXCEPT !.call[c].stack[n].pc = "loaded",
                                            !.call[c].stack[n].loaded = st.total_requests]
                      /\ UNCHANGED <<api_status, streak>>
                 ELSE /\ api_status' = [api_status EXCEPT ![f.api] =
                         RecordRequest([st EXCEPT !.total_requests = f.loaded], f.success)]
                      /\ streak' = [streak EXCEPT ![f.api] =
                                       IF f.success THEN 0 ELSE @ + 1]
                      /\ mon' = ReturnFrom(
                            [mon EXCEPT !.recent_response_times[f.api] =
                                RecordResponseTime(@, f.success, f.response_time),
                                        !.recorded[f.api] =
                                [calls |-> @.calls + 1,
                                 successes |-> @.successes + IF f.success THEN 1 ELSE 0]],
                            c, 0, TRUE)
            [] f.method = "get_best_api" ->
                 /\ UNCHANGED <<api_status, streak>>
                 /\ IF f.pc = "unlocked"
                    THEN mon' = ReturnFrom(mon, c,
                                   IF f.available_apis = <<>> THEN 0
                                   ELSE BestOf(f.available_apis), FALSE)
                    ELSE IF f.got # <<>>
                    THEN mon' = [mon EXCEPT
                            !.call[c].stack[n].got = <<>>,
                            !.call[c].stack[n].i = @ + 1,
                            !.call[c].stack[n].available_apis =
                               IF f.got[1]
                               THEN Append(@, [api |-> f.api_urls[f.i],
                                               score |-> BestApiScore(
                                                  api_status[f.api_urls[f.i]],
                                                  mon.recent_response_times[f.api_urls[f.i]])])
                               ELSE @]
                    ELSE IF f.i <= Len(f.api_urls)
                    THEN mon' = CallFrom(mon, c,
                                   Frame("is_api_available", f.api_urls[f.i], FALSE, 0, <<>>))
                    ELSE mon' = [mon EXCEPT !.lock = 0, !.call[c].stack[n].pc = "unlocked"]
    /\ UNCHANGED <<thr, attempts, trial, run, site>>

\* ------------------------------------------------------- batch client
\* dict[key] = value on an insertion-ordered dict kept as a sequence of pairs
DictSet(d, key, value) ==
    IF \E i \in 1..Len(d) : d[i][1] = key
    THEN [i \in 1..Len(d) |-> IF d[i][1] = key THEN <<key, value>> ELSE d[i]]
    ELSE Append(d, <<key, value>>)

DictValues(d) == [i \in 1..Len(d) |-> d[i][2]]

\* unique_keywords of batch_query_keywords: normalized key -> last original
RECURSIVE UniqueNormalized(_, _)
UniqueNormalized(keywords_list, d) ==
    IF keywords_list = <<>> THEN d
    ELSE LET kw == Head(keywords_list)
             normalized_kw == normalize_keyword(kw)
         IN UniqueNormalized(Tail(keywords_list),
                IF normalized_kw # <<>> THEN DictSet(d, normalized_kw, kw) ELSE d)

\* a split that keeps full batches only
RECURSIVE ChunksFull(_, _)
ChunksFull(l, size) ==
    IF Len(l) < size THEN <<>>
    ELSE <<SubSeq(l, 1, size)>> \o ChunksFull(SubSeq(l, size + 1, Len(l)), size)

\* for i in range(0, len(l), size): l[i:i + size]
RECURSIVE Chunks(_, _)
Chunks(l, size) ==
    IF l = <<>> THEN <<>>
    ELSE IF Len(l) <= size THEN <<l>>
    ELSE <<SubSeq(l, 1, size)>> \o Chunks(SubSeq(l, size + 1, Len(l)), size)

RetryStatusCodes == {429, 500, 502, 503, 504}

_should_retry(status_code) == status_code \in RetryStatusCodes

_calculate_wait_time(retry_count) ==
    IF retry_count <= 3 THEN <<3, 6, 12>>[retry_count] ELSE 15

\* max_retries = max_retries or config.api_retry_max
EffectiveRetries(max_retries) == IF max_retries = 0 THEN ApiRetryMax ELSE max_retries

HttpResp(code, json, status, data) ==
    [kind |-> "http", code |-> code, json |-> json, status |-> status, data |-> data]

NetworkError(kind) ==
    [kind |-> kind, code |-> 0, json |-> FALSE, status |-> "", data |-> <<>>]

\* responses whose payload carries no item
PlainResponses ==
    { HttpResp(200, TRUE, "success", <<>>), HttpResp(200, TRUE, "error", <<>>),
      HttpResp(200, FALSE, "", <<>>), HttpResp(404, FALSE, "", <<>>),
      HttpResp(500, FALSE, "", <<>>), HttpResp(429, FALSE, "", <<>>),
      NetworkError("timeout"), NetworkError("connection_error"),
      NetworkError("exception") }

\* keyword_data after the items of a successful batch result are stored
RECURSIVE StoreItems(_, _)
StoreItems(keyword_data, data) ==
    IF data = <<>> THEN keyword_data
    ELSE LET item == Head(data)
             keyword == item.keyword
             stored ==
                IF keyword = <<>> THEN keyword_data
                ELSE IF keyword \in DOMAIN keyword_data
                THEN [keyword_data EXCEPT ![keyword] =
                        IF item.metrics = "missing"
                        THEN [item EXCEPT !.metrics = keyword_data[keyword].metrics]
                        ELSE item]
                ELSE (keyword :> item) @@ keyword_data
         IN StoreItems(stored, Tail(data))

\* the endpoints of config.keywords_api_urls
Configured(mode) ==
    IF mode = "none" THEN {} ELSE IF mode = "single" THEN {GlobalApi} ELSE Endpoints

\* every configured endpoint has its circuit open within the recovery interval
AllBlocked(mode, status) == \A e \in Configured(mode) : CircuitBlocks(status[e])

\* the run after the endpoints' statuses became status: unavailable stays true
\* as long as every configured endpoint stayed blocked since the call started
Lapse(r, status) ==
    [r EXCEPT !.unavailable = @ /\ AllBlocked(r.mode, status)]

\* the loop over the items of a batch result raises: item.get('metrics', {})
\* is None for an item with a keyword and "metrics": null, and None has no get
Raises(data) ==
    \E i \in 1..Len(data) : data[i].keyword # <<>> /\ data[i].metrics = "null"

\* process_time: the seconds a queue worker has spent in time.sleep since its
\* start_time; slept: the seconds it slept after its last batch
IdleThread == [pc |-> "idle", api |-> 0, queue |-> <<>>, batch |-> <<>>,
               keyword_data |-> <<>>, retry_count |-> 0, max_retries |-> 0,
               process_time |-> 0, slept |-> 0]

\* history kept with a recorded outcome
Recorded(t, e, success) ==
    /\ streak' = [streak EXCEPT ![e] = IF success THEN 0 ELSE @ + 1]
    /\ trial' = [trial EXCEPT ![e] = @ \ {t, Orchestrator}]

\* the bag with one more copy of every element of batch
RECURSIVE AddToBag(_, _)
AddToBag(bag, batch) ==
    IF batch = <<>> THEN bag
    ELSE AddToBag(bag (+) SetToBag({Head(batch)}), Tail(batch))

\* the thread that has entered batch_query_keywords of the client of endpoint api:
\* keywords deduplicated by normalized form and split into batches
StartBatchQueryOf(api, keywords_list, max_retries, keywords_batch_size) ==
    IF keywords_list = <<>>
    THEN [IdleThread EXCEPT !.pc = "done", !.api = api]
    ELSE [IdleThread EXCEPT
            !.pc = "next", !.api = api, !.max_retries = max_retries,
            !.queue = Chunks(DictValues(UniqueNormalized(keywords_list, <<>>)),
                             keywords_batch_size)]

\* the same with config.keywords_batch_size at its default
StartBatchQuery(api, keywords_list, max_retries) ==
    StartBatchQueryOf(api, keywords_list, max_retries, KeywordsBatchSize)

\* a thread of the watcher calls batch_query_keywords of a client
BatchQueryKeywords(t, api, keywords_list, max_retries) ==
    /\ thr[t].pc = "idle"
    /\ api_status[api].registered
    /\ thr' = [thr EXCEPT ![t] = StartBatchQuery(api, keywords_list, max_retries)]
    /\ UNCHANGED <<api_status, attempts, streak, trial, run>>
    /\ UNCHANGED others

\* the while loop of batch_query_keywords takes the next batch;
\* _fetch_from_api asks is_api_available before the first request
NextBatch(t) ==
    /\ thr[t].pc = "next"
    /\ IF thr[t].queue = <<>>
       THEN /\ thr' = [thr EXCEPT ![t].pc = "done"]
            /\ UNCHANGED <<api_status, attempts, streak, trial, run>>
       ELSE LET e == thr[t].api
                st == api_status[e]
            IN /\ api_status' = [api_status EXCEPT ![e] = AfterIsApiAvailable(st)]
               /\ streak' = [streak EXCEPT ![e] = IF AdmitsTrial(st) THEN 0 ELSE @]
               /\ trial' = [trial EXCEPT ![e] = IF AdmitsTrial(st) THEN {t} ELSE @]
               /\ thr' = [thr EXCEPT ![t] =
                    IF IsApiAvailable(st)
                    THEN [@ EXCEPT !.pc = "request", !.batch = Head(thr[t].queue),
                                   !.queue = Tail(thr[t].queue), !.retry_count = 0]
                    ELSE [@ EXCEPT !.queue = Tail(thr[t].queue)]]
               /\ UNCHANGED <<attempts, run>>
    /\ UNCHANGED others

\* the call whose ThreadResourceManager started worker t
CallOf(t) == ((t - 1) \div MaxQueueWorkers) + 1

\* thread t works for the orchestrator's current call
InCall(t) == run.mode = "queue" => CallOf(t) = run.calls

\* session.get is issued
HttpGet(t) ==
    /\ thr[t].pc = "request"
    /\ attempts[thr[t].api] < MaxAttempts
    /\ attempts' = [attempts EXCEPT ![thr[t].api] = @ + 1]
    /\ thr' = [thr EXCEPT ![t].pc = "await"]
    /\ run' = IF run.phase # "idle" /\ InCall(t) /\ thr[t].retry_count = 0
              THEN [run EXCEPT
                      !.sent = AddToBag(@, thr[t].batch),
                      !.wire = @ \cup {<<thr[t].batch[i], thr[t].api>> :
                                          i \in 1..Len(thr[t].batch)}]
              ELSE run
    /\ UNCHANGED <<api_status, streak, trial>>
    /\ UNCHANGED others

\* the request ends with resp; _fetch_from_api handles it, and when it returns,
\* get_keyword_data and batch_query_keywords store the result
HttpResponse(t, resp) ==
    LET e == thr[t].api
        st == api_status[e]
        retry_count == thr[t].retry_count + 1
        retries == retry_count <= EffectiveRetries(thr[t].max_retries)
        accepted == resp.json /\ resp.status = "success"
    IN
    /\ thr[t].pc = "await"
    /\ IF resp.kind = "http" /\ resp.code = 200
       THEN /\ api_status' = [api_status EXCEPT ![e] = RecordRequest(st, resp.json)]
            /\ Recorded(t, e, resp.json)
            /\ thr' = [thr EXCEPT
                         ![t].pc = IF accepted /\ Raises(resp.data)
                                   THEN "raised" ELSE "next",
                         ![t].batch = <<>>,
                         ![t].keyword_data =
                            IF accepted THEN StoreItems(@, resp.data) ELSE @]
       ELSE IF resp.kind = "http"
       THEN /\ api_status' = [api_status EXCEPT ![e] = RecordRequest(st, FALSE)]
            /\ Recorded(t, e, FALSE)
            /\ thr' = [thr EXCEPT ![t] =
                 IF _should_retry(resp.code) /\ retries
                 THEN [@ EXCEPT !.pc = "interval", !.retry_count = retry_count]
                 ELSE [@ EXCEPT !.pc = "next", !.batch = <<>>]]
       ELSE IF resp.kind \in {"timeout", "connection_error"}
       THEN /\ api_status' =
                 IF retries THEN Elapse(api_status, _calculate_wait_time(retry_count))
                 ELSE api_status
            /\ thr' = [thr EXCEPT ![t] =
                 IF retries
                 THEN [@ EXCEPT !.pc = "request", !.retry_count = retry_count]
                 ELSE [@ EXCEPT !.pc = "next", !.batch = <<>>]]
            /\ trial' = [trial EXCEPT ![e] = IF retries THEN @ ELSE @ \ {t}]
            /\ UNCHANGED streak
       ELSE /\ thr' = [thr EXCEPT ![t].pc = "next", ![t].batch = <<>>]
            /\ trial' = [trial EXCEPT ![e] = @ \ {t}]
            /\ UNCHANGED <<api_status, streak>>
    /\ run' = Lapse(run, api_status')
    /\ UNCHANGED attempts
    /\ UNCHANGED others

\* after a retryable status: get_adaptive_interval, then time.sleep
Backoff(t) ==
    /\ thr[t].pc = "interval"
    /\ api_status' = Elapse(api_status,
           _calculate_wait_time(thr[t].retry_count)
           + get_adaptive_interval(api_status[thr[t].api]))
    /\ thr' = [thr EXCEPT ![t].pc = "request",
                          ![t].process_time =
                             IF run.mode = "queue"
                             THEN @ + _calculate_wait_time(thr[t].retry_count)
                                    + get_adaptive_interval(api_status[thr[t].api])
                             ELSE @]
    /\ run' = Lapse(run, api_status')
    /\ UNCHANGED <<attempts, streak, trial>>
    /\ UNCHANGED others

\* batch_query_keywords returns keyword_data to its caller
Return(t) ==
    /\ thr[t].pc = "done"
    /\ thr' = [thr EXCEPT ![t] = IdleThread]
    /\ UNCHANGED <<api_status, attempts, streak, trial, run>>
    /\ UNCHANGED others

\* one second passes
Tick ==
    /\ \E e \in Endpoints :
          /\ api_status[e].circuit_open_time # NoTime
          /\ api_status[e].circuit_open_time < AgeCap
    /\ api_status' = Elapse(api_status, 1)
    /\ run' = Lapse(run, api_status')
    /\ UNCHANGED <<thr, attempts, streak, trial>>
    /\ UNCHANGED others

\* ------------------------------------------------------- orchestrator
\* the configuration and entry point of the orchestrator:
\*   "none"    batch_query_keywords_parallel, no endpoint configured
\*   "single"  batch_query_keywords_parallel, one endpoint configured
\*   "manager" batch_query_keywords_parallel, several endpoints configured
\*   "direct"  DirectParallelStrategy.execute_query, several endpoints
\*   "queue"   QueueSchedulerStrategy.execute_query, several endpoints
Modes == {"none", "single", "manager", "direct", "queue"}

\* limit bounds the calls with a non-empty list; batch_size is
\* APISchedulerConfig.batch_size; task_queue holds the queue of every call so far
IdleRun(mode, limit, batch_size) ==
    [mode |-> mode, limit |-> limit, batch_size |-> batch_size,
     phase |-> "idle", strategy |-> "", keywords_list |-> <<>>, task_queue |-> <<>>,
     joining |-> 0, max_retries |-> 0, results |-> <<>>, sent |-> EmptyBag,
     wire |-> {}, unavailable |-> FALSE, calls |-> 0]

StartRun(keywords_list, max_retries, strategy) ==
    [run EXCEPT !.phase = "running", !.strategy = strategy,
                !.keywords_list = keywords_list, !.max_retries = max_retries,
                !.task_queue = Append(@, <<>>), !.joining = 0,
                !.results = <<>>, !.sent = EmptyBag, !.wire = {},
                !.unavailable = AllBlocked(run.mode, api_status),
                !.calls = @ + 1]

\* a call with an empty list returns {} at once
EmptyRun ==
    [run EXCEPT !.phase = "idle", !.strategy = "", !.keywords_list = <<>>,
                !.joining = 0, !.max_retries = 0, !.results = <<>>,
                !.sent = EmptyBag, !.wire = {}, !.unavailable = FALSE]

\* dict.update(other)
DictUpdate(d, other) == other @@ d

\* batch_query_keywords_parallel with no configured endpoint: returns {}
NoApiMode(keywords_list, max_retries) ==
    /\ run.mode = "none" /\ run.phase = "idle"
    /\ keywords_list # <<>> => run.calls < run.limit
    /\ run' = IF keywords_list = <<>> THEN EmptyRun
              ELSE [StartRun(keywords_list, max_retries, "none") EXCEPT !.phase = "idle"]
    /\ UNCHANGED <<api_status, thr, attempts, streak, trial>>
    /\ UNCHANGED others

\* batch_query_keywords_parallel with several configured endpoints:
\* _select_and_execute_strategy calls get_optimized_processor(), whose constructor
\* calls KeywordAPI(api_urls=..., timeout=..., max_retries=...); KeywordAPI.__init__
\* takes no such argument, the TypeError is no ImportError, so _fallback_strategy
\* is not called and the except clause of batch_query_keywords_parallel returns {}
SelectAndExecuteStrategy(keywords_list, max_retries) ==
    /\ run.mode = "manager" /\ run.phase = "idle"
    /\ keywords_list # <<>> => run.calls < run.limit
    /\ run' = IF keywords_list = <<>> THEN EmptyRun
              ELSE [StartRun(keywords_list, max_retries, "failed") EXCEPT !.phase = "idle"]
    /\ UNCHANGED <<api_status, thr, attempts, streak, trial>>
    /\ UNCHANGED others

\* batch_query_keywords_parallel with one configured endpoint:
\* _handle_single_api_mode builds a client and calls batch_query_keywords
HandleSingleApiMode(keywords_list, max_retries, keywords_batch_size) ==
    /\ run.mode = "single" /\ run.phase = "idle"
    /\ keywords_list # <<>> => run.calls < run.limit
    /\ \A t \in Threads : thr[t].pc = "idle"
    /\ IF keywords_list = <<>>
       THEN /\ run' = EmptyRun
            /\ UNCHANGED <<api_status, thr>>
       ELSE /\ run' = StartRun(keywords_list, max_retries, "single")
            /\ api_status' = register_api(api_status, GlobalApi)
            /\ thr' = [thr EXCEPT ![GlobalApi] =
                         StartBatchQueryOf(GlobalApi, keywords_list, max_retries,
                                           keywords_batch_size)]
    /\ UNCHANGED <<attempts, streak, trial>>
    /\ UNCHANGED others

\* the same with config.keywords_batch_size at its default
SingleApiMode(keywords_list, max_retries) ==
    HandleSingleApiMode(keywords_list, max_retries, KeywordsBatchSize)

\* api.batch_query_keywords returns to _handle_single_api_mode
SingleApiReturn(t) ==
    /\ run.mode = "single" /\ run.phase = "running"
    /\ thr[t].pc = "done"
    /\ run' = [run EXCEPT !.results = thr[t].keyword_data, !.phase = "idle"]
    /\ thr' = [thr EXCEPT ![t] = IdleThread]
    /\ UNCHANGED <<api_status, attempts, streak, trial>>
    /\ UNCHANGED others

\* api.batch_query_keywords raises and nothing catches the exception: it
\* reaches the caller of batch_query_keywords_parallel
SingleApiPropagates(t) ==
    /\ run.mode = "single" /\ run.phase = "running"
    /\ thr[t].pc = "raised"
    /\ run' = [run EXCEPT !.phase = "raised"]
    /\ thr' = [thr EXCEPT ![t] = IdleThread]
    /\ UNCHANGED <<api_status, attempts, streak, trial>>
    /\ UNCHANGED others

\* api.batch_query_keywords raises: the except clause of
\* batch_query_keywords_parallel logs the exception and returns {}
SingleApiRaised(t) ==
    /\ run.mode = "single" /\ run.phase = "running"
    /\ thr[t].pc = "raised"
    /\ run' = [run EXCEPT !.results = <<>>, !.phase = "idle", !.strategy = "failed"]
    /\ thr' = [thr EXCEPT ![t] = IdleThread]
    /\ UNCHANGED <<api_status, attempts, streak, trial>>
    /\ UNCHANGED others

\* unique_keywords of DirectParallelStrategy.execute_query: kw.lower() -> last original
RECURSIVE UniqueLower(_, _)
UniqueLower(keywords_list, d) ==
    IF keywords_list = <<>> THEN d
    ELSE UniqueLower(Tail(keywords_list),
                     DictSet(d, Lower(Head(keywords_list)), Head(keywords_list)))

\* the score _shard_keywords gives an endpoint, as the fraction num/den:
\* its success_rate when is_api_available returned true, else 0.0
HealthScore(st) ==
    IF ~IsApiAvailable(st) THEN [num |-> 0, den |-> 1]
    ELSE IF ~st.registered \/ st.total_requests = 0 THEN [num |-> 1, den |-> 1]
    ELSE [num |-> st.successful_requests, den |-> st.total_requests]

ScoreAbove(a, b) == a.num * b.den > b.num * a.den

\* api_health_scores after the stable sort by descending score: endpoint indices
SortedByScore(status) ==
    LET n == Cardinality(Endpoints) IN
    CHOOSE p \in [1..n -> Endpoints] :
        /\ \A i, j \in 1..n : i # j => p[i] # p[j]
        /\ \A i, j \in 1..n : i < j =>
              /\ ~ScoreAbove(HealthScore(status[p[j]]), HealthScore(status[p[i]]))
              /\ (~ScoreAbove(HealthScore(status[p[i]]), HealthScore(status[p[j]]))
                    => p[i] < p[j])

\* the keywords whose position i has order[i % len(order)] = e
RECURSIVE ShardOf(_, _, _, _)
ShardOf(keywords, order, e, i) ==
    IF i > Len(keywords) THEN <<>>
    ELSE (IF order[((i - 1) % Len(order)) + 1] = e THEN <<keywords[i]>> ELSE <<>>)
         \o ShardOf(keywords, order, e, i + 1)

_shard_keywords(keywords, status) ==
    [e \in Endpoints |-> ShardOf(keywords, SortedByScore(status), e, 1)]

\* DirectParallelStrategy.execute_query up to the submission of the shards:
\* dedupe by lower case, _shard_keywords (which asks is_api_available for every
\* endpoint), then one batch_query_keywords per non-empty shard on its own thread
DirectExecuteQuery(keywords_list, max_retries) ==
    LET keyword_shards == _shard_keywords(DictValues(UniqueLower(keywords_list, <<>>)),
                                          api_status)
        asked == [e \in Endpoints |-> AfterIsApiAvailable(api_status[e])]
    IN
    /\ run.mode = "direct" /\ run.phase = "idle"
    /\ keywords_list # <<>> => run.calls < run.limit
    /\ \A t \in Threads : thr[t].pc = "idle"
    /\ IF keywords_list = <<>>
       THEN /\ run' = EmptyRun
            /\ UNCHANGED <<api_status, thr, streak, trial>>
       ELSE /\ run' = StartRun(keywords_list, max_retries, "direct")
            /\ api_status' = [e \in Endpoints |->
                    IF keyword_shards[e] # <<>> /\ ~asked[e].registered
                    THEN NewStatus ELSE asked[e]]
            /\ streak' = [e \in Endpoints |->
                    IF AdmitsTrial(api_status[e]) THEN 0 ELSE streak[e]]
            /\ trial' = [e \in Endpoints |->
                    IF AdmitsTrial(api_status[e]) THEN {Orchestrator} ELSE trial[e]]
            /\ thr' = [t \in DOMAIN thr |->
                    IF t \in Endpoints /\ keyword_shards[t] # <<>>
                    THEN StartBatchQuery(t, keyword_shards[t], max_retries)
                    ELSE thr[t]]
    /\ UNCHANGED attempts
    /\ UNCHANGED others

\* as_completed yields a shard's future: final_results.update(result)
ShardCompleted(t) ==
    /\ run.mode = "direct" /\ run.phase = "running"
    /\ thr[t].pc = "done"
    /\ run' = [run EXCEPT !.results = DictUpdate(@, thr[t].keyword_data)]
    /\ thr' = [thr EXCEPT ![t] = IdleThread]
    /\ UNCHANGED <<api_status, attempts, streak, trial>>
    /\ UNCHANGED others

\* every shard's future is done: the executor is left and execute_query returns
ExecuteQueryReturn ==
    /\ run.mode = "direct" /\ run.phase = "running"
    /\ \A t \in Threads : thr[t].pc = "idle"
    /\ run' = [run EXCEPT !.phase = "idle"]
    /\ UNCHANGED <<api_status, thr, attempts, streak, trial>>
    /\ UNCHANGED others

\* --------------------------------------------------------- queue mode
\* the stop signal None on a task queue; a batch is never empty
StopSignal == <<>>

\* the worker_id of thread t and the endpoint worker_id % len(urls) it is bound to
worker_id(t) == (t - 1) % MaxQueueWorkers
ApiOf(t) == (worker_id(t) % Cardinality(Endpoints)) + 1
WorkersOf(call) == {t \in AllThreads : CallOf(t) = call}

\* a thread at task_queue.get
PollingWorker(t, max_retries) ==
    [IdleThread EXCEPT !.pc = "poll", !.api = ApiOf(t), !.max_retries = max_retries]

\* QueueSchedulerStrategy.execute_query up to the start of the workers:
\* dedupe by normalized form, _create_keyword_batches, fill a new task queue,
\* a new ThreadResourceManager creates and starts max_queue_workers threads,
\* each of which gets the client of its endpoint
QueueExecuteQuery(keywords_list, max_retries) ==
    LET call == run.calls + 1 IN
    /\ run.mode = "queue" /\ run.phase = "idle"
    /\ keywords_list # <<>> => run.calls < run.limit
    /\ IF keywords_list = <<>>
       THEN /\ run' = EmptyRun
            /\ UNCHANGED <<api_status, thr>>
       ELSE /\ run' = [StartRun(keywords_list, max_retries, "queue") EXCEPT
                         !.task_queue[call] =
                            Chunks(DictValues(UniqueNormalized(keywords_list, <<>>)),
                                   run.batch_size)]
            /\ thr' = [t \in DOMAIN thr |->
                         IF CallOf(t) = call THEN PollingWorker(t, max_retries)
                         ELSE thr[t]]
            /\ api_status' = [e \in Endpoints |->
                         IF e \in {ApiOf(t) : t \in WorkersOf(call)}
                         THEN register_api(api_status, e)[e] ELSE api_status[e]]
    /\ UNCHANGED <<attempts, streak, trial>>
    /\ UNCHANGED others

\* a worker that reads the head of its queue and leaves it there
WorkerPeeks(t) ==
    LET task_queue == run.task_queue[CallOf(t)] IN
    /\ thr[t].pc = "poll"
    /\ task_queue # <<>> /\ Head(task_queue) # StopSignal
    /\ thr' = [thr EXCEPT ![t] =
                 [StartBatchQuery(thr[t].api, Head(task_queue), thr[t].max_retries)
                    EXCEPT !.max_retries = thr[t].max_retries]]
    /\ UNCHANGED <<api_status, attempts, streak, trial, run>>
    /\ UNCHANGED others

\* _queue_worker t gets a batch from its task queue and calls
\* batch_query_keywords of its client
WorkerTakes(t) ==
    LET task_queue == run.task_queue[CallOf(t)] IN
    /\ thr[t].pc = "poll"
    /\ task_queue # <<>> /\ Head(task_queue) # StopSignal
    /\ thr' = [thr EXCEPT ![t] =
                 [StartBatchQuery(thr[t].api, Head(task_queue), thr[t].max_retries)
                    EXCEPT !.max_retries = thr[t].max_retries]]
    /\ run' = [run EXCEPT !.task_queue[CallOf(t)] = Tail(@)]
    /\ UNCHANGED <<api_status, attempts, streak, trial>>
    /\ UNCHANGED others

\* _queue_worker t gets the stop signal and ends
WorkerStops(t) ==
    LET task_queue == run.task_queue[CallOf(t)] IN
    /\ thr[t].pc = "poll"
    /\ task_queue # <<>> /\ Head(task_queue) = StopSignal
    /\ thr' = [thr EXCEPT ![t] = IdleThread]
    /\ run' = [run EXCEPT !.task_queue[CallOf(t)] = Tail(@)]
    /\ UNCHANGED <<api_status, attempts, streak, trial>>
    /\ UNCHANGED others

\* a sleep of what is left of the adaptive interval of the worker's endpoint
\* after process_time seconds
RemainingInterval(st, process_time) ==
    Max(0, AdaptiveIntervalTenths(st) - 10 * process_time)

\* required_interval of _queue_worker after a batch that took process_time
\* seconds: max(base_interval, base_interval - process_time)
required_interval(process_time) ==
    LET base_interval == Max(BatchInterval, 2)
    IN Max(base_interval, base_interval - process_time)

\* _queue_worker t has its batch result: results.update on the dict of its
\* call, time.sleep(required_interval), task_done, back to task_queue.get
WorkerFinished(t) ==
    /\ run.mode = "queue"
    /\ thr[t].pc = "done"
    /\ api_status' = Elapse(api_status, required_interval(thr[t].process_time))
    /\ run' = Lapse(IF CallOf(t) = run.calls
                    THEN [run EXCEPT !.results = DictUpdate(@, thr[t].keyword_data)]
                    ELSE run,
                    api_status')
    /\ thr' = [thr EXCEPT ![t] =
                 [PollingWorker(t, thr[t].max_retries) EXCEPT
                    !.slept = required_interval(thr[t].process_time)]]
    /\ UNCHANGED <<attempts, streak, trial>>
    /\ UNCHANGED others

\* _wait_for_completion: the loop ends when the queue is empty, when more than
\* max_wait_time has passed, or when no worker is alive; then the stop signals
\* are put on the queue
WaitForCompletionWith(signals) ==
    LET call == run.calls
        task_queue == run.task_queue[call]
        alive_threads == Cardinality({t \in WorkersOf(call) : thr[t].pc # "idle"})
        timed_out == task_queue # <<>> /\ alive_threads # 0
    IN
    /\ run.mode = "queue" /\ run.phase = "running"
    /\ api_status' = IF timed_out THEN Elapse(api_status, MaxWaitTime + 1)
                     ELSE api_status
    /\ run' = Lapse([run EXCEPT !.phase = "shutdown", !.joining = 1,
                                !.task_queue[call] =
                                   task_queue \o [i \in 1..signals |-> StopSignal]],
                    api_status')
    /\ UNCHANGED <<thr, attempts, streak, trial>>
    /\ UNCHANGED others

\* a wait that puts a single stop signal on the queue
WaitForCompletionOneSignal == WaitForCompletionWith(1)

\* one stop signal for each of the max_queue_workers workers
WaitForCompletion == WaitForCompletionWith(MaxQueueWorkers)

\* a join without a timeout: it returns when the thread has ended
JoinThreadUntilEnd ==
    LET t == (run.calls - 1) * MaxQueueWorkers + run.joining IN
    /\ run.mode = "queue" /\ run.phase = "shutdown"
    /\ thr[t].pc = "idle"
    /\ run' = IF run.joining = MaxQueueWorkers
              THEN [run EXCEPT !.phase = "idle", !.joining = 0]
              ELSE [run EXCEPT !.joining = @ + 1]
    /\ UNCHANGED <<api_status, thr, attempts, streak, trial>>
    /\ UNCHANGED others

\* shutdown_gracefully joins the next thread: the join returns when the thread
\* has ended, or after the join timeout with the thread still alive; after the
\* last join execute_query returns results
JoinThread ==
    LET t == (run.calls - 1) * MaxQueueWorkers + run.joining IN
    /\ run.mode = "queue" /\ run.phase = "shutdown"
    /\ api_status' = IF thr[t].pc # "idle" THEN Elapse(api_status, JoinTimeout)
                     ELSE api_status
    /\ run' = Lapse(IF run.joining = MaxQueueWorkers
                    THEN [run EXCEPT !.phase = "idle", !.joining = 0]
                    ELSE [run EXCEPT !.joining = @ + 1],
                    api_status')
    /\ UNCHANGED <<thr, attempts, streak, trial>>
    /\ UNCHANGED others

\* ---------------------------------------------------------------------
\* Spec: the threads of the watcher call batch_query_keywords of the one
\* module-level client keyword_api, which is bound to the first endpoint.
PlainKeyword == <<"g", "s">>
MaxRetriesArgs == {0, 1, 2}

Init ==
    /\ api_status = [e \in Endpoints |-> IF e = GlobalApi THEN NewStatus ELSE NoStatus]
    /\ thr = [t \in Threads |-> IdleThread]
    /\ attempts = [e \in Endpoints |-> 0]
    /\ streak = [e \in Endpoints |-> 0]
    /\ trial = [e \in Endpoints |-> {}]
    /\ run = IdleRun("single", 0, KeywordsBatchSize)
    /\ OthersInit

Next ==
    \/ \E t \in Threads, mr \in MaxRetriesArgs :
          BatchQueryKeywords(t, GlobalApi, <<PlainKeyword>>, mr)
    \/ \E t \in Threads : NextBatch(t)
    \/ \E t \in Threads : HttpGet(t)
    \/ \E t \in Threads, resp \in PlainResponses : HttpResponse(t, resp)
    \/ \E t \in Threads : Backoff(t)
    \/ \E t \in Threads : Return(t)
    \/ Tick

Spec == Init /\ [][Next]_vars

\* ---------------------------------------------------------------------
\* SpecResolve: one orchestrator, with one endpoint or with several endpoints
\* and entered through the manager or the direct strategy, is handed keyword
\* lists; the endpoints answer with any items.
RawKeywords == { <<"G", " ", "t">>, <<"g", " ", " ", "t">>, <<"g", "s">>, <<"t", "s">> }

KeywordLists == UNION { [1..n -> RawKeywords] : n \in 0..MaxInput }

\* a keyword the caller never asks for
UnaskedKeyword == <<"a", "s">>

Items(batch) ==
    [keyword : {batch[i] : i \in 1..Len(batch)} \cup {UnaskedKeyword},
     metrics : {"valid", "invalid"}]

ItemResponses(batch) ==
    { HttpResp(200, TRUE, "success", data) :
        data \in UNION { [1..n -> Items(batch)] : n \in 1..MaxItems } }

InitResolve ==
    /\ api_status = [e \in Endpoints |-> IF e = GlobalApi THEN NewStatus ELSE NoStatus]
    /\ thr = [t \in Threads |-> IdleThread]
    /\ attempts = [e \in Endpoints |-> 0]
    /\ streak = [e \in Endpoints |-> 0]
    /\ trial = [e \in Endpoints |-> {}]
    /\ \E mode \in {"single", "manager", "direct"} :
          run = IdleRun(mode, MaxCalls, KeywordsBatchSize)
    /\ OthersInit

NextResolve ==
    \/ \E keywords_list \in KeywordLists, mr \in {ApiRetryMax} :
          SingleApiMode(keywords_list, mr)
    \/ \E t \in Threads : SingleApiReturn(t)
    \/ \E keywords_list \in KeywordLists, mr \in {ApiRetryMax} :
          DirectExecuteQuery(keywords_list, mr)
    \/ \E t \in Threads : ShardCompleted(t)
    \/ ExecuteQueryReturn
    \/ \E keywords_list \in KeywordLists, mr \in {ApiRetryMax} :
          SelectAndExecuteStrategy(keywords_list, mr)
    \/ \E t \in Threads : NextBatch(t)
    \/ \E t \in Threads : HttpGet(t)
    \/ \E t \in Threads :
          \E resp \in PlainResponses \cup ItemResponses(thr[t].batch) :
             HttpResponse(t, resp)
    \/ \E t \in Threads : Backoff(t)
    \/ Tick

SpecResolve == InitResolve /\ [][NextResolve]_vars

\* ---------------------------------------------------------------------
\* SpecRuns: one orchestrator is called several times in a row and keeps the
\* health of its endpoints between the calls; a queue-mode call starts its own
\* workers, and workers abandoned by an earlier call are still running.
RunKeywordLists == { <<<<"g", "s">>>>, <<<<"g", "s">>, <<"t", "s">>>> }
\* the lists handed to consecutive queue-mode calls
QueueRunLists == { <<<<"g", "s">>>> }

\* the answers of an endpoint to a batch: its first keyword's item, a server
\* error, or no answer within the request timeout
RunResponses(batch) ==
    { HttpResp(500, FALSE, "", <<>>), NetworkError("timeout") }
    \cup (IF batch = <<>> THEN {}
          ELSE { HttpResp(200, TRUE, "success",
                          <<[keyword |-> batch[1], metrics |-> "valid"]>>) })

InitRuns ==
    /\ api_status = [e \in Endpoints |-> IF e = GlobalApi THEN NewStatus ELSE NoStatus]
    /\ thr = [t \in AllThreads |-> IdleThread]
    /\ attempts = [e \in Endpoints |-> 0]
    /\ streak = [e \in Endpoints |-> 0]
    /\ trial = [e \in Endpoints |-> {}]
    /\ \E mode \in {"none", "single", "direct", "queue"} :
          run = IdleRun(mode, MaxPoolRuns, 1)
    /\ OthersInit

NextRuns ==
    \/ \E keywords_list \in RunKeywordLists : NoApiMode(keywords_list, ApiRetryMax)
    \/ \E keywords_list \in RunKeywordLists : SingleApiMode(keywords_list, ApiRetryMax)
    \/ \E t \in Threads : SingleApiReturn(t)
    \/ \E keywords_list \in RunKeywordLists : DirectExecuteQuery(keywords_list, ApiRetryMax)
    \/ \E t \in Threads : ShardCompleted(t)
    \/ ExecuteQueryReturn
    \/ \E keywords_list \in QueueRunLists : QueueExecuteQuery(keywords_list, ApiRetryMax)
    \/ \E t \in AllThreads : WorkerTakes(t)
    \/ \E t \in AllThreads : WorkerStops(t)
    \/ \E t \in AllThreads : WorkerFinished(t)
    \/ WaitForCompletion
    \/ JoinThread
    \/ \E t \in AllThreads : NextBatch(t)
    \/ \E t \in AllThreads : HttpGet(t)
    \/ \E t \in AllThreads : \E resp \in RunResponses(thr[t].batch) : HttpResponse(t, resp)
    \/ \E t \in AllThreads : Backoff(t)
    \/ Tick

SpecRuns == InitRuns /\ [][NextRuns]_vars

\* ---------------------------------------------------------------------
\* SpecQueue: one queue-mode call with a batch size of one keyword, so that the
\* workers share several tasks. SpecQueueFair adds that the orchestrator's
\* thread goes on: its wait and its joins are bounded by wall-clock timeouts;
\* nothing is assumed of the workers or the endpoints. SpecQueueAnswered adds
\* that every worker thread takes its next step and that every request ends.
InitQueue ==
    /\ api_status = [e \in Endpoints |-> IF e = GlobalApi THEN NewStatus ELSE NoStatus]
    /\ thr = [t \in AllThreads |-> IdleThread]
    /\ attempts = [e \in Endpoints |-> 0]
    /\ streak = [e \in Endpoints |-> 0]
    /\ trial = [e \in Endpoints |-> {}]
    /\ run = IdleRun("queue", 1, 1)
    /\ OthersInit

\* worker t is at task_queue.get and a task is at the head of its queue
CanTake(t) ==
    /\ thr[t].pc = "poll"
    /\ run.task_queue[CallOf(t)] # <<>>
    /\ Head(run.task_queue[CallOf(t)]) # StopSignal

\* the steps of worker t after it has taken a task, and its end
WorkerStep(t) ==
    WorkerStops(t) \/ WorkerFinished(t) \/ NextBatch(t) \/ HttpGet(t) \/ Backoff(t)

RequestEnds(t) == \E resp \in RunResponses(thr[t].batch) : HttpResponse(t, resp)

NextQueue ==
    \/ \E keywords_list \in RunKeywordLists : QueueExecuteQuery(keywords_list, ApiRetryMax)
    \/ \E t \in Threads : WorkerTakes(t)
    \/ \E t \in Threads : WorkerStops(t)
    \/ \E t \in Threads : WorkerFinished(t)
    \/ WaitForCompletion
    \/ JoinThread
    \/ \E t \in Threads : NextBatch(t)
    \/ \E t \in Threads : HttpGet(t)
    \/ \E t \in Threads : RequestEnds(t)
    \/ \E t \in Threads : Backoff(t)
    \/ Tick

SpecQueue == InitQueue /\ [][NextQueue]_vars

SpecQueueFair ==
    /\ SpecQueue
    /\ WF_vars(WaitForCompletion \/ JoinThread)

\* weak fairness of WorkerTakes(t) is written out with CanTake(t), the
\* condition under which WorkerTakes(t) is enabled
SpecQueueAnswered ==
    /\ SpecQueueFair
    /\ \A t \in Threads : WF_vars(WorkerStep(t) \/ RequestEnds(t))
    /\ \A t \in Threads : []<>(~CanTake(t)) \/ []<><<WorkerTakes(t)>>_vars

\* ---------------------------------------------------------------------
\* SpecOutage: one call of an orchestrator whose endpoints are either untouched
\* or were all left with an open circuit by an earlier call, every request of
\* which got a server error (api_circuit_breaker_threshold failures, no success).
TrippedStatus(age) ==
    [NewStatus EXCEPT !.consecutive_failures = ApiCircuitBreakerThreshold,
                      !.total_requests = ApiCircuitBreakerThreshold,
                      !.is_circuit_open = TRUE,
                      !.circuit_open_time = age]

\* the least age of the circuits when that earlier call has returned: every
\* queue worker sleeps the batch interval after its task
AgeAtReturn(mode) ==
    IF mode = "queue" THEN MaxQueueWorkers * Max(ApiRequestInterval, 2) ELSE 0

InitOutage ==
    \E mode \in {"none", "single", "direct", "queue"} :
        \E tripped \in {{}, Configured(mode)} :
            /\ api_status = [e \in Endpoints |->
                                IF e \in tripped THEN TrippedStatus(AgeAtReturn(mode))
                                ELSE IF e = GlobalApi THEN NewStatus ELSE NoStatus]
            /\ thr = [t \in AllThreads |-> IdleThread]
            /\ attempts = [e \in Endpoints |->
                              IF e \in tripped THEN ApiCircuitBreakerThreshold ELSE 0]
            /\ streak = [e \in Endpoints |->
                            IF e \in tripped THEN ApiCircuitBreakerThreshold ELSE 0]
            /\ trial = [e \in Endpoints |-> {}]
            /\ run = IdleRun(mode, 1, 1)
            /\ OthersInit

NextOutage ==
    \/ \E keywords_list \in RunKeywordLists : NoApiMode(keywords_list, ApiRetryMax)
    \/ \E keywords_list \in RunKeywordLists : SingleApiMode(keywords_list, ApiRetryMax)
    \/ \E t \in Threads : SingleApiReturn(t)
    \/ \E keywords_list \in RunKeywordLists : DirectExecuteQuery(keywords_list, ApiRetryMax)
    \/ \E t \in Threads : ShardCompleted(t)
    \/ ExecuteQueryReturn
    \/ \E keywords_list \in RunKeywordLists : QueueExecuteQuery(keywords_list, ApiRetryMax)
    \/ \E t \in Threads : WorkerTakes(t)
    \/ \E t \in Threads : WorkerStops(t)
    \/ \E t \in Threads : WorkerFinished(t)
    \/ WaitForCompletion
    \/ JoinThread
    \/ \E t \in Threads : NextBatch(t)
    \/ \E t \in Threads : HttpGet(t)
    \/ \E t \in Threads : RequestEnds(t)
    \/ \E t \in Threads : Backoff(t)
    \/ Tick

SpecOutage == InitOutage /\ [][NextOutage]_vars

\* ---------------------------------------------------------------------
\* SpecParallel: batch_query_keywords_parallel with no, one or several
\* endpoints configured; the endpoints answer with anything: an item for each
\* keyword of the batch, no item, an error, or an item whose metrics are null.
EchoItems(batch) ==
    [i \in 1..Len(batch) |-> [keyword |-> batch[i], metrics |-> "valid"]]

NullItems(batch) ==
    [keyword : {batch[i] : i \in 1..Len(batch)}, metrics : {"null"}]

RaisingResponses(batch) ==
    { HttpResp(200, TRUE, status, <<item>>) :
        status \in {"success", "error"}, item \in NullItems(batch) }

ParallelKeywordLists == RunKeywordLists \cup { <<>> }

\* the values of KEYWORDS_API_URLS: lists of URLs that start with http:// or
\* https:// ("http") and of other non-empty texts ("other")
ConfiguredUrlLists ==
    { <<>>, <<"other">>, <<"http">>, <<"http", "other">>, <<"http", "http">> }

\* ConfigValidator.validate_and_filter_api_urls: the valid URLs; an empty
\* list is logged and returned
validate_and_filter_api_urls(urls) ==
    IF urls = <<>> THEN <<>>
    ELSE SelectSeq(urls, LAMBDA url : url = "http")

\* the branch batch_query_keywords_parallel takes with keywords_api_urls
ModeOf(keywords_api_urls) ==
    IF keywords_api_urls = <<>> THEN "none"
    ELSE IF Len(keywords_api_urls) <= 1 THEN "single"
    ELSE "manager"

InitParallel ==
    /\ api_status = [e \in Endpoints |-> IF e = GlobalApi THEN NewStatus ELSE NoStatus]
    /\ thr = [t \in Threads |-> IdleThread]
    /\ attempts = [e \in Endpoints |-> 0]
    /\ streak = [e \in Endpoints |-> 0]
    /\ trial = [e \in Endpoints |-> {}]
    /\ \E urls \in ConfiguredUrlLists :
          run = IdleRun(ModeOf(validate_and_filter_api_urls(urls)),
                        MaxCalls + 1, KeywordsBatchSize)
    /\ OthersInit

NextParallel ==
    \/ \E keywords_list \in ParallelKeywordLists : NoApiMode(keywords_list, ApiRetryMax)
    \/ \E keywords_list \in ParallelKeywordLists : SingleApiMode(keywords_list, ApiRetryMax)
    \/ \E t \in Threads : SingleApiReturn(t)
    \/ \E t \in Threads : SingleApiRaised(t)
    \/ \E keywords_list \in ParallelKeywordLists :
          SelectAndExecuteStrategy(keywords_list, ApiRetryMax)
    \/ \E t \in Threads : NextBatch(t)
    \/ \E t \in Threads : HttpGet(t)
    \/ \E t \in Threads :
          \E resp \in PlainResponses \cup RaisingResponses(thr[t].batch)
                        \cup { HttpResp(200, TRUE, "success", EchoItems(thr[t].batch)) } :
             HttpResponse(t, resp)
    \/ \E t \in Threads : Backoff(t)
    \/ Tick

SpecParallel == InitParallel /\ [][NextParallel]_vars

\* ---------------------------------------------------------------------
\* SpecBatchSize: get_adaptive_batch_size is asked about an endpoint that is
\* unknown to the monitor, or about one with failures requests failed and
\* then successes requests answered on record.
RECURSIVE Replay(_, _, _)
Replay(st, failures, successes) ==
    IF failures > 0 THEN Replay(RecordRequest(st, FALSE), failures - 1, successes)
    ELSE IF successes > 0 THEN Replay(RecordRequest(st, TRUE), 0, successes - 1)
    ELSE st

InitBatchSize ==
    \E total \in 0..MaxCount : \E successes \in 0..total :
        /\ api_status = [e \in Endpoints |->
                            IF e = GlobalApi
                            THEN Replay(NewStatus, total - successes, successes)
                            ELSE NoStatus]
        /\ thr = [t \in Threads |-> IdleThread]
        /\ attempts = [e \in Endpoints |-> IF e = GlobalApi THEN total ELSE 0]
        /\ streak = [e \in Endpoints |->
                        IF e = GlobalApi /\ successes = 0 THEN total ELSE 0]
        /\ trial = [e \in Endpoints |-> {}]
        /\ run = IdleRun("single", 0, KeywordsBatchSize)
        /\ OthersInit

NextBatchSize ==
    \/ \E c \in Callers : \E e \in Endpoints :
          MonitorCall(c, Frame("get_adaptive_batch_size", e, FALSE, 0, <<>>))
    \/ \E c \in Callers : Acquire(c)
    \/ \E c \in Callers : MonitorStep(c)

SpecBatchSize == InitBatchSize /\ [][NextBatchSize]_vars

\* ---------------------------------------------------------------------
\* SpecInterval: get_adaptive_interval is asked about the endpoints of
\* SpecBatchSize.
NextInterval ==
    \/ \E c \in Callers : \E e \in Endpoints :
          MonitorCall(c, Frame("get_adaptive_interval", e, FALSE, 0, <<>>))
    \/ \E c \in Callers : Acquire(c)
    \/ \E c \in Callers : MonitorStep(c)

SpecInterval == InitBatchSize /\ [][NextInterval]_vars

\* ---------------------------------------------------------------------
\* SpecBatches: batch_query_keywords_parallel with one endpoint and a
\* configured keywords_batch_size of 1..5 (ConfigValidator.validate_batch_size);
\* the endpoint answers a batch with one item for each of its keywords, or fails.
Letters == <<"g", "t", "s", "n">>

\* MaxKeywords different two-letter keywords
DistinctKeywords ==
    [i \in 1..MaxKeywords |->
        <<Letters[((i - 1) \div 4) + 1], Letters[((i - 1) % 4) + 1]>>]

\* the first n keywords, and the same with the first keyword given again in
\* another spelling at the end
BatchKeywordLists ==
    { SubSeq(DistinctKeywords, 1, n) : n \in 0..MaxKeywords }
    \cup { Append(SubSeq(DistinctKeywords, 1, n), <<"G", "g", " ">>) : n \in 1..MaxKeywords }

BatchResponses(batch) ==
    { HttpResp(200, TRUE, "success", EchoItems(batch)),
      HttpResp(404, FALSE, "", <<>>), HttpResp(500, FALSE, "", <<>>),
      NetworkError("timeout") }

InitBatches ==
    /\ api_status = [e \in Endpoints |-> IF e = GlobalApi THEN NewStatus ELSE NoStatus]
    /\ thr = [t \in Threads |-> IdleThread]
    /\ attempts = [e \in Endpoints |-> 0]
    /\ streak = [e \in Endpoints |-> 0]
    /\ trial = [e \in Endpoints |-> {}]
    /\ \E keywords_batch_size \in 1..5 :
          run = IdleRun("single", 1, keywords_batch_size)
    /\ OthersInit

NextBatches ==
    \/ \E keywords_list \in BatchKeywordLists :
          HandleSingleApiMode(keywords_list, ApiRetryMax, run.batch_size)
    \/ \E t \in Threads : SingleApiReturn(t)
    \/ \E t \in Threads : NextBatch(t)
    \/ \E t \in Threads : HttpGet(t)
    \/ \E t \in Threads : \E resp \in BatchResponses(thr[t].batch) : HttpResponse(t, resp)
    \/ \E t \in Threads : Backoff(t)
    \/ Tick

SpecBatches == InitBatches /\ [][NextBatches]_vars

\* ---------------------------------------------------------------------
\* SpecStrategies: one call of DirectParallelStrategy.execute_query or of
\* QueueSchedulerStrategy.execute_query (batch size 1) with the same lists
\* and the same endpoints: the first endpoint answers every batch with one
\* item for each keyword, the other answers every request with a 500.
Answers(e) == e = GlobalApi

\* the lists of a call: every order of the keywords of a list is a list too
StrategyKeywordLists == RunKeywordLists \cup { <<<<"t", "s">>, <<"g", "s">>>> }

EndpointAnswer(e, batch) ==
    IF Answers(e) THEN HttpResp(200, TRUE, "success", EchoItems(batch))
    ELSE HttpResp(500, FALSE, "", <<>>)

InitStrategies ==
    /\ api_status = [e \in Endpoints |-> IF e = GlobalApi THEN NewStatus ELSE NoStatus]
    /\ thr = [t \in Threads |-> IdleThread]
    /\ attempts = [e \in Endpoints |-> 0]
    /\ streak = [e \in Endpoints |-> 0]
    /\ trial = [e \in Endpoints |-> {}]
    /\ \E mode \in {"direct", "queue"} : run = IdleRun(mode, 1, 1)
    /\ OthersInit

NextStrategies ==
    \/ \E keywords_list \in StrategyKeywordLists : DirectExecuteQuery(keywords_list, ApiRetryMax)
    \/ \E t \in Threads : ShardCompleted(t)
    \/ ExecuteQueryReturn
    \/ \E keywords_list \in StrategyKeywordLists : QueueExecuteQuery(keywords_list, ApiRetryMax)
    \/ \E t \in Threads : WorkerTakes(t)
    \/ \E t \in Threads : WorkerStops(t)
    \/ \E t \in Threads : WorkerFinished(t)
    \/ WaitForCompletion
    \/ JoinThread
    \/ \E t \in Threads : NextBatch(t)
    \/ \E t \in Threads : HttpGet(t)
    \/ \E t \in Threads : HttpResponse(t, EndpointAnswer(thr[t].api, thr[t].batch))
    \/ \E t \in Threads : Backoff(t)
    \/ Tick

SpecStrategies == InitStrategies /\ [][NextStrategies]_vars

\* ---------------------------------------------------------------------
\* SpecMonitor: two threads call the methods of one APIHealthMonitor about
\* endpoints that are registered or unknown to it; every method takes the
\* monitor's lock. At most MaxRecords outcomes are recorded for an endpoint.
ResponseTimes == {0, 2}
ApiUrlLists == { <<>>, <<1>>, <<2>>, <<1, 2>> }

\* the calls of record_request(e, ...) entered and not yet recorded
Recording(e) ==
    Cardinality({c \in Callers :
        /\ mon.call[c].stack # <<>>
        /\ mon.call[c].stack[1].method = "record_request"
        /\ mon.call[c].stack[1].api = e})

InitMonitor ==
    /\ api_status \in [Endpoints -> {NewStatus, NoStatus}]
    /\ thr = [t \in Threads |-> IdleThread]
    /\ attempts = [e \in Endpoints |-> 0]
    /\ streak = [e \in Endpoints |-> 0]
    /\ trial = [e \in Endpoints |-> {}]
    /\ run = IdleRun("single", 0, KeywordsBatchSize)
    /\ OthersInit

NextMonitor ==
    \/ \E c \in Callers : \E e \in Endpoints :
          MonitorCall(c, Frame("register_api", e, FALSE, 0, <<>>))
    \/ \E c \in Callers : \E e \in Endpoints : \E success \in BOOLEAN :
          \E response_time \in ResponseTimes :
             /\ api_status[e].total_requests + Recording(e) < MaxRecords
             /\ MonitorCall(c, Frame("record_request", e, success, response_time, <<>>))
    \/ \E c \in Callers : \E e \in Endpoints :
          MonitorCall(c, Frame("is_api_available", e, FALSE, 0, <<>>))
    \/ \E c \in Callers : \E api_urls \in ApiUrlLists :
          MonitorCall(c, Frame("get_best_api", 1, FALSE, 0, api_urls))
    \/ \E c \in Callers : Acquire(c)
    \/ \E c \in Callers : MonitorStep(c)

SpecMonitor == InitMonitor /\ [][NextMonitor]_vars

\* a thread that can enter or go on in a method does so; a thread that waits
\* for the lock gets it if the lock is free again and again
SpecMonitorFair ==
    /\ SpecMonitor
    /\ \A c \in Callers : SF_vars(Acquire(c)) /\ WF_vars(MonitorStep(c))

\* ---------------------------------------------------------------------
\* SpecHealth: two threads use one APIHealthMonitor the way _fetch_from_api
\* does (is_api_available, then requests.get outside the monitor, then
\* record_request with the outcome unless the request raised, then the next
\* attempt of the retry loop) and call its queries and reset_api_status in
\* between, while time passes in steps of the recovery interval. Every
\* response takes 2 s; at most MaxOutcomes outcomes are recorded in one
\* APIHealthStatus. The endpoint of the watcher is registered, the other one
\* is unknown to the monitor.
Pending(e) ==
    Cardinality({c \in Callers :
        \/ mon.call[c].request = e
        \/ /\ mon.call[c].stack # <<>>
           /\ mon.call[c].stack[1].method = "record_request"
           /\ mon.call[c].stack[1].api = e})

\* the caller is past the availability check of _fetch_from_api for e, or in
\* its retry loop after a failed attempt
MaySend(c, e) ==
    /\ mon.call[c].stack = <<>>
    /\ mon.call[c].request = 0
    /\ mon.call[c].done # <<>>
    /\ mon.call[c].done[1].api = e
    /\ \/ mon.call[c].done[1].method = "is_api_available" /\ mon.call[c].ret = <<TRUE>>
       \/ mon.call[c].done[1].method = "record_request" /\ ~mon.call[c].done[1].success

\* requests.get is sent
SendRequest(c, e) ==
    /\ MaySend(c, e)
    /\ api_status[e].registered
    /\ api_status[e].total_requests + Pending(e) < MaxOutcomes
    /\ mon' = [mon EXCEPT !.call[c].request = e, !.call[c].done = <<>>,
                          !.call[c].ret = <<>>]
    /\ UNCHANGED <<core, site>>

\* requests.get returns a response: record_request(api_url, success, response_time)
ReceiveResponse(c, success, response_time) ==
    /\ mon.call[c].request # 0
    /\ mon' = [mon EXCEPT !.call[c] =
                  [stack |-> <<Frame("record_request", mon.call[c].request,
                                     success, response_time, <<>>)>>,
                   done |-> <<>>, ret |-> <<>>, request |-> 0]]
    /\ UNCHANGED <<core, site>>

\* requests.get raises: _fetch_from_api returns without a record
RequestRaises(c) ==
    /\ mon.call[c].request # 0
    /\ mon' = [mon EXCEPT !.call[c].request = 0]
    /\ UNCHANGED <<core, site>>

\* d seconds pass
Wait(d) ==
    /\ \E e \in Endpoints :
          /\ api_status[e].circuit_open_time # NoTime
          /\ api_status[e].circuit_open_time < AgeCap
    /\ api_status' = Elapse(api_status, d)
    /\ UNCHANGED <<thr, attempts, streak, trial, run>>
    /\ UNCHANGED others

HealthQueries == {"get_adaptive_batch_size", "get_adaptive_interval", "get_health_summary"}

InitHealth ==
    /\ api_status = [e \in Endpoints |-> IF e = GlobalApi THEN NewStatus ELSE NoStatus]
    /\ thr = [t \in Threads |-> IdleThread]
    /\ attempts = [e \in Endpoints |-> 0]
    /\ streak = [e \in Endpoints |-> 0]
    /\ trial = [e \in Endpoints |-> {}]
    /\ run = IdleRun("single", 0, KeywordsBatchSize)
    /\ OthersInit

NextHealth ==
    \/ \E c \in Callers : \E e \in Endpoints :
          MonitorCall(c, Frame("is_api_available", e, FALSE, 0, <<>>))
    \/ \E c \in Callers : \E e \in Endpoints : SendRequest(c, e)
    \/ \E c \in Callers : \E success \in BOOLEAN : ReceiveResponse(c, success, 2)
    \/ \E c \in Callers : RequestRaises(c)
    \/ \E c \in Callers : \E e \in Endpoints : \E method \in HealthQueries :
          MonitorCall(c, Frame(method, e, FALSE, 0, <<>>))
    \/ \E c \in Callers : \E e \in Endpoints :
          MonitorCall(c, Frame("reset_api_status", e, FALSE, 0, <<>>))
    \/ \E c \in Callers : Acquire(c)
    \/ \E c \in Callers : MonitorStep(c)
    \/ Wait(RecoveryInterval)

SpecHealth == InitHealth /\ [][NextHealth]_vars

\* some thread asks whether e is available
CheckAvailability(e) ==
    \E c \in Callers : MonitorCall(c, Frame("is_api_available", e, FALSE, 0, <<>>))

\* time does not stop, the endpoints keep being checked, a thread inside the
\* monitor gets the lock and finishes its method, and a request ends with a
\* response or an exception (requests.get has a timeout)
SpecHealthFair ==
    /\ SpecHealth
    /\ WF_vars(Wait(RecoveryInterval))
    /\ \A e \in Endpoints : WF_vars(CheckAvailability(e))
    /\ \A c \in Callers : SF_vars(Acquire(c)) /\ WF_vars(MonitorStep(c))
    /\ \A c \in Callers :
          WF_vars(RequestRaises(c) \/ \E success \in BOOLEAN : ReceiveResponse(c, success, 2))

\* ---------------------------------------------------------------------
\* The crawl cycle of one site: SiteDataCollector.collect_site_data compares
\* the sitemap with the persisted snapshot, the keywords of the updated URLs
\* are resolved, and SiteUpdateProcessor.process_site_updates persists the
\* URLs it has keyword data for. A dict is a sequence of <<key, value>> pairs,
\* a lastmod is <<>> (None or empty) or <<date, time>>, date 0 being a text
\* strptime rejects; a snapshot item is [url, lastmod, keywords_data], with
\* keywords_data <<>> when the item has no such field. found_urls is the
\* updated_urls _find_updated_urls has returned in the cycle.
Urls == {1, 2, 3}
Dates == 1..MaxDay
Lastmods == { <<>>, <<0, 0>>, <<1, 0>>, <<2, 0>>, <<2, 1>> }

\* keyword_extractor.extract_keywords_from_url on the URLs of the model
extract_keywords_from_url(url) ==
    CASE url = 1 -> <<"g">>
      [] url = 2 -> <<"g", "s">>
      [] OTHER -> <<>>

DictKeys(d) == [i \in 1..Len(d) |-> d[i][1]]
KeySet(d) == {d[i][1] : i \in 1..Len(d)}
DictGet(d, key) == d[CHOOSE i \in 1..Len(d) : d[i][1] = key][2]
Elems(l) == {l[i] : i \in 1..Len(l)}

\* a check of the date that takes every lastmod for one of today
AnyDateIsToday(lastmod, today) == lastmod # <<>>

is_updated_today(lastmod, today) ==
    IF lastmod = <<>> THEN FALSE
    ELSE IF lastmod[1] \notin Dates THEN FALSE
    ELSE lastmod[1] = today

\* data_manager.get_previous_urls: (previous_urls, previous_keywords_data)
get_previous_urls(previous_data) ==
    [previous_urls |->
        [i \in 1..Len(previous_data) |->
            <<previous_data[i].url, previous_data[i].lastmod>>],
     previous_keywords_data |->
        LET with == SelectSeq(previous_data, LAMBDA item : item.keywords_data # <<>>)
        IN [i \in 1..Len(with) |-> <<with[i].url, with[i].keywords_data[1]>>]]

_find_updated_urls(sitemap_data, previous_urls, previous_keywords_data, today) ==
    LET is_new(p) == p[1] \notin KeySet(previous_urls)
        is_updated(p) ==
            /\ ~is_new(p) /\ p[2] # <<>>
            /\ DictGet(previous_urls, p[1]) # p[2]
            /\ is_updated_today(p[2], today)
        updated == SelectSeq(sitemap_data, LAMBDA p : is_new(p) \/ is_updated(p))
    IN [updated_urls |-> DictKeys(updated),
        new_encrypted_data |->
           [i \in 1..Len(sitemap_data) |->
               [url |-> sitemap_data[i][1], lastmod |-> sitemap_data[i][2],
                keywords_data |->
                   IF sitemap_data[i][1] \in KeySet(previous_keywords_data)
                   THEN <<DictGet(previous_keywords_data, sitemap_data[i][1])>>
                   ELSE <<>>]]]

\* url_keywords_map of _extract_and_filter_keywords; valid_urls are its keys
_extract_and_filter_keywords(updated_urls) ==
    LET keyword(url) == Lower(Strip(extract_keywords_from_url(url)))
        valid_urls == SelectSeq(updated_urls, LAMBDA url : keyword(url) # <<>>)
    IN [i \in 1..Len(valid_urls) |-> <<valid_urls[i], keyword(valid_urls[i])>>]

_keywords_match(api_keyword, input_keyword) ==
    \/ api_keyword = input_keyword
    \/ /\ api_keyword # <<>> /\ api_keyword[Len(api_keyword)] = "s"
       /\ SubSeq(api_keyword, 1, Len(api_keyword) - 1) = input_keyword
    \/ /\ input_keyword # <<>> /\ input_keyword[Len(input_keyword)] = "s"
       /\ SubSeq(input_keyword, 1, Len(input_keyword) - 1) = api_keyword

\* <<keyword data>> of the match, <<>> for None
_find_matching_keyword_data(target_keyword, global_keyword_data) ==
    IF target_keyword \in KeySet(global_keyword_data)
    THEN <<DictGet(global_keyword_data, target_keyword)>>
    ELSE LET hits == SelectSeq(global_keyword_data,
                        LAMBDA p : _keywords_match(Lower(p[1]), Lower(target_keyword)))
         IN IF hits = <<>> THEN <<>> ELSE <<hits[1][2]>>

_is_valid_keyword_data(keyword_data, keyword) ==
    LET api_keyword == Lower(Strip(keyword_data.keyword))
        input_keyword == Lower(Strip(keyword))
    IN /\ api_keyword # <<>> => _keywords_match(api_keyword, input_keyword)
       /\ keyword_data.metrics = "valid"

\* keywords_data_to_store of _build_keyword_mappings
_build_keyword_mappings(url_keywords_map, global_keyword_data) ==
    LET found(p) == _find_matching_keyword_data(p[2], global_keyword_data)
        stored == SelectSeq(url_keywords_map,
                     LAMBDA p : /\ found(p) # <<>>
                                /\ _is_valid_keyword_data(found(p)[1], p[2]))
    IN [i \in 1..Len(stored) |->
           <<stored[i][1], [keyword |-> stored[i][2], data |-> found(stored[i])[1]]>>]

\* new_encrypted_data after _update_encrypted_data_with_keywords
_update_encrypted_data_with_keywords(new_encrypted_data, keywords_data_to_store, successful_urls) ==
    LET known == {new_encrypted_data[i].url : i \in 1..Len(new_encrypted_data)}
        fresh == SelectSeq(successful_urls, LAMBDA url : url \notin known)
        all == new_encrypted_data \o
                  [i \in 1..Len(fresh) |->
                      [url |-> fresh[i], lastmod |-> <<>>, keywords_data |-> <<>>]]
        with == [i \in 1..Len(all) |->
                    IF all[i].url \in Elems(successful_urls)
                    THEN [all[i] EXCEPT !.keywords_data =
                             <<DictGet(keywords_data_to_store, all[i].url)>>]
                    ELSE all[i]]
    IN SelectSeq(with, LAMBDA item : item.url \in Elems(successful_urls))

_save_existing_verified_data(new_encrypted_data) ==
    SelectSeq(new_encrypted_data, LAMBDA item : item.keywords_data # <<>>)

\* the sitemaps a download can return: each URL absent or with a lastmod
RECURSIVE Sitemaps(_)
Sitemaps(urls) ==
    IF urls = <<>> THEN { <<>> }
    ELSE LET rest == Sitemaps(Tail(urls))
         IN rest \cup { <<<<Head(urls), lastmod>>>> \o s :
                           lastmod \in (IF extract_keywords_from_url(Head(urls)) = <<>>
                                        THEN { <<>> } ELSE Lastmods),
                           s \in rest }

\* the maps a resolve can return for keywords: an item for some of them
RECURSIVE ResultMaps(_)
ResultMaps(keywords) ==
    IF keywords = <<>> THEN { <<>> }
    ELSE LET rest == ResultMaps(Tail(keywords))
             item == [keyword |-> Head(keywords), metrics |-> "valid"]
         IN rest \cup { <<<<Head(keywords), item>>>> \o m : m \in rest }

RECURSIVE Unique(_)
Unique(l) ==
    IF l = <<>> THEN <<>>
    ELSE LET rest == Unique(Tail(l))
         IN IF Head(l) \in Elems(rest) THEN rest ELSE <<Head(l)>> \o rest

\* collect_site_data(site_url, site_index) with the sitemap the download returned
CollectSiteData(sitemap_data) ==
    /\ site.phase = "idle"
    /\ site.cycles < MaxCycles
    /\ LET prev == get_previous_urls(site.previous_data)
           found == _find_updated_urls(sitemap_data, prev.previous_urls,
                                       prev.previous_keywords_data, site.today)
           url_keywords_map == _extract_and_filter_keywords(found.updated_urls)
       IN site' =
            IF sitemap_data = <<>>
            THEN [site EXCEPT !.cycles = @ + 1,
                              !.sitemap_data = sitemap_data,
                              !.found_urls = <<>>]
            ELSE IF found.updated_urls = <<>>
            THEN [site EXCEPT !.cycles = @ + 1,
                              !.sitemap_data = sitemap_data,
                              !.found_urls = <<>>,
                              !.previous_data = found.new_encrypted_data]
            ELSE [site EXCEPT
                    !.phase = "collected",
                    !.sitemap_data = sitemap_data,
                    !.found_urls = found.updated_urls,
                    !.site_data =
                       [updated_urls |-> DictKeys(url_keywords_map),
                        url_keywords_map |-> url_keywords_map,
                        keywords |-> Unique(DictValues(url_keywords_map)),
                        new_encrypted_data |-> found.new_encrypted_data,
                        is_first_run |-> prev.previous_urls = <<>>]]
    /\ UNCHANGED <<core, mon>>

\* the keywords of the site are resolved; global_keyword_data is the map returned
ResolveKeywords(global_keyword_data) ==
    /\ site.phase = "collected"
    /\ site' = [site EXCEPT !.phase = "resolved",
                            !.global_keyword_data = global_keyword_data]
    /\ UNCHANGED <<core, mon>>

\* process_site_updates(site_id, site_data, url_keywords_map, global_keyword_data)
ProcessSiteUpdates ==
    /\ site.phase = "resolved"
    /\ LET updated_urls == site.site_data.updated_urls
           new_encrypted_data == site.site_data.new_encrypted_data
           keywords_data_to_store ==
              _build_keyword_mappings(site.site_data.url_keywords_map,
                                      site.global_keyword_data)
           successful_urls == DictKeys(keywords_data_to_store)
       IN site' =
            [site EXCEPT
               !.phase = "idle",
               !.cycles = @ + 1,
               !.previous_data =
                  IF updated_urls = <<>>
                  THEN _save_existing_verified_data(new_encrypted_data)
                  ELSE IF successful_urls # <<>>
                  THEN _update_encrypted_data_with_keywords(
                          new_encrypted_data, keywords_data_to_store, successful_urls)
                  ELSE @,
               !.submitted =
                  IF updated_urls # <<>> THEN keywords_data_to_store ELSE <<>>]
    /\ UNCHANGED <<core, mon>>

\* the date changes between two cycles
NextDay ==
    /\ site.phase = "idle"
    /\ site.today < MaxDay
    /\ site' = [site EXCEPT !.today = @ + 1]
    /\ UNCHANGED <<core, mon>>

\* SpecSite: MaxCycles crawl cycles of one site, from an empty snapshot
InitSite ==
    /\ api_status = [e \in Endpoints |-> NoStatus]
    /\ thr = [t \in Threads |-> IdleThread]
    /\ attempts = [e \in Endpoints |-> 0]
    /\ streak = [e \in Endpoints |-> 0]
    /\ trial = [e \in Endpoints |-> {}]
    /\ run = IdleRun("single", 0, KeywordsBatchSize)
    /\ OthersInit

NextSite ==
    \/ \E sitemap_data \in Sitemaps(<<1, 2, 3>>) : CollectSiteData(sitemap_data)
    \/ \E global_keyword_data \in ResultMaps(site.site_data.keywords) :
          ResolveKeywords(global_keyword_data)
    \/ ProcessSiteUpdates
    \/ NextDay

SpecSite == InitSite /\ [][NextSite]_vars

\* ------------------------------------------------------------ history
\* thread t issues an HTTP GET in this step
Gets(t) == thr[t].pc = "request" /\ thr'[t].pc = "await"

\* thread t's request ends in this step
Answered(t) == thr[t].pc = "await" /\ thr'[t].pc # "await"

\* record_request(e, success) runs in this step
RecordsFailure(e) ==
    /\ api_status'[e].total_requests = api_status[e].total_requests + 1
    /\ api_status'[e].successful_requests = api_status[e].successful_requests

RecordsSuccess(e) ==
    /\ api_status'[e].total_requests = api_status[e].total_requests + 1
    /\ api_status'[e].successful_requests = api_status[e].successful_requests + 1

\* thread t calls is_api_available in this step, and what it returns
AsksAvailable(t) == thr[t].pc = "next" /\ thr[t].queue # <<>> /\ thr'[t] # thr[t]
AnsweredAvailable(t) == AsksAvailable(t) /\ thr'[t].pc = "request"

\* ------------------------------------------------------------- claims
\* C1: every HTTP GET to an endpoint is issued in a state where the endpoint's
\* circuit is not open, or its recovery interval has elapsed.
C1_NoCallWhileOpen ==
    [][\A t \in Threads : Gets(t) => ~CircuitBlocks(api_status[thr[t].api])]_vars

C3_EveryAttemptRecorded ==
    (\A t \in Threads : thr[t].pc # "await")
        => \A e \in Endpoints : api_status[e].total_requests = attempts[e]

\* C4: when the recovery trial fails, the circuit is open again and the
\* recovery timer restarts from that failure.
C4_FailedTrialReopens ==
    [][\A t \in Threads :
        LET e == thr[t].api IN
        (Answered(t) /\ t \in trial[e] /\ RecordsFailure(e))
            => /\ api_status'[e].is_circuit_open
               /\ api_status'[e].circuit_open_time = 0
      ]_vars

\* C5: between the is_api_available call that admits the recovery trial and
\* the record_request of its outcome, no other is_api_available call for the
\* endpoint returns true.
C5_SingleTrial ==
    [][\A t \in Threads :
        (AsksAvailable(t) /\ trial[thr[t].api] # {}) => ~AnsweredAvailable(t)
      ]_vars

\* C6: a success recorded for an endpoint whose circuit is open, or for the
\* recovery trial, leaves the circuit closed with consecutive_failures = 0 and
\* the endpoint available.
C6_SuccessCloses ==
    [][\A t \in Threads :
        LET e == thr[t].api IN
        (Answered(t) /\ RecordsSuccess(e)
            /\ (api_status[e].is_circuit_open \/ t \in trial[e]))
            => /\ ~api_status'[e].is_circuit_open
               /\ api_status'[e].consecutive_failures = 0
               /\ IsApiAvailable(api_status'[e])
      ]_vars

\* the normalized keys of the list handed to the orchestrator
NormalizedInput ==
    {normalize_keyword(run.keywords_list[i]) : i \in 1..Len(run.keywords_list)} \ {<<>>}

\* C7: a key is in the result only for an item that passed validation (a keyword
\* and metrics with a required field); nothing else is ever stored.
C7_NoFabrication ==
    \A keyword \in DOMAIN run.results : run.results[keyword].metrics = "valid"

\* C8: every key of the result is a normalized key of the input, also when the
\* response names keywords that were not asked for.
C8_KeysFromInput == DOMAIN run.results \subseteq NormalizedInput

\* C9: in every mode the keywords put on the wire for one call hold one item
\* per normalized key: no keyword is sent twice and no two keywords sent have
\* the same normalized form.
C9_OneItemPerKey ==
    \A k1, k2 \in BagToSet(run.sent) :
        /\ CopiesIn(k1, run.sent) = 1
        /\ normalize_keyword(k1) = normalize_keyword(k2) => k1 = k2

\* C10: the batch of every request is no larger than the endpoint's current
\* get_adaptive_batch_size, which is at most 5.
C10_BatchWithinAdaptiveSize ==
    [][\A t \in Threads :
        Gets(t) => /\ Len(thr[t].batch) <= get_adaptive_batch_size(api_status[thr[t].api])
                   /\ get_adaptive_batch_size(api_status[thr[t].api]) <= 5
      ]_vars

\* C13: for the max_retries a caller passes, 0 included, the client issues at
\* most max_retries + 1 HTTP GETs for one batch.
C13_AtMostRetriesPlusOne ==
    [][\A t \in Threads : Gets(t) => thr[t].retry_count + 1 <= thr[t].max_retries + 1]_vars

\* C19: when a request ends a batch of more than one keyword in failure, the batch
\* is bisected: its two halves are put on the queue to be retried on their own.
C19_FailedBatchBisected ==
    [][\A t \in Threads : \A resp \in PlainResponses :
        ( /\ HttpResponse(t, resp)
          /\ thr'[t].pc = "next"
          /\ ~(resp.kind = "http" /\ resp.code = 200 /\ resp.json /\ resp.status = "success")
          /\ Len(thr[t].batch) > 1 )
        => Len(thr'[t].queue) = Len(thr[t].queue) + 2
      ]_vars

\* C11: at no point are more than max_workers worker threads alive, and so at
\* most max_workers execute network calls: within a call, during the shutdown,
\* and across consecutive calls when an earlier call abandoned workers.
C11_WorkersWithinMax ==
    Cardinality({t \in AllThreads : thr[t].pc # "idle"}) <= MaxWorkers

\* C12: the tasks on a queue are distinct and in front of every stop signal, so
\* that no worker ends before the tasks are dequeued; whenever a worker leaves
\* task_queue.get with a task, it is the only worker to do so in that step, it
\* holds the head of its queue and the head is removed; and a queue changes in
\* no other way than by losing its head or by gaining stop signals, so no task
\* is put back, whatever the outcome of its batch.
C12_TaskToOneWorker ==
    [][\A call \in DOMAIN run.task_queue :
        LET task_queue == run.task_queue[call]
            after == run'.task_queue[call]
            takers == {t \in WorkersOf(call) :
                          thr[t].pc = "poll" /\ thr'[t].pc \notin {"poll", "idle"}}
        IN /\ \A i, j \in 1..Len(task_queue) :
                 /\ (i # j /\ task_queue[i] # StopSignal) => task_queue[i] # task_queue[j]
                 /\ (i < j /\ task_queue[i] = StopSignal) => task_queue[j] = StopSignal
           /\ Cardinality(takers) <= 1
           /\ \A t \in takers :
                 /\ task_queue # <<>> /\ Head(task_queue) # StopSignal
                 /\ after = Tail(task_queue)
                 /\ thr'[t].queue = <<Head(task_queue)>>
           /\ after # task_queue =>
                 \/ task_queue # <<>> /\ after = Tail(task_queue)
                 \/ after = task_queue \o [i \in 1..MaxQueueWorkers |-> StopSignal]
      ]_vars

\* C12 witness: the two workers of a call each execute a task of their own
C12_Witness ==
    /\ run.mode = "queue"
    /\ thr[1].pc = "await" /\ thr[2].pc = "await"
    /\ thr[1].batch # thr[2].batch

\* C14: a queue-mode call that has started its workers always returns, whatever
\* the workers and the endpoints do: also with tasks still queued or in flight,
\* and with a request that is never answered.
C14_QueueModeReturns == (run.phase = "running") ~> (run.phase = "idle")

\* C14 witness: execute_query has returned while a worker of the call still
\* waits for the answer to its request
C14_Witness ==
    /\ run.mode = "queue" /\ run.calls = 1 /\ run.phase = "idle"
    /\ \E t \in Threads : thr[t].pc = "await"

\* C15: the orchestrator puts one stop signal per started worker on the queue,
\* a worker ends only by dequeuing a stop signal, and when every request ends,
\* every worker has ended some time after the stop signals were put.
C15_WorkersStop ==
    /\ [][(run.phase = "running" /\ run'.phase = "shutdown") =>
             Len(SelectSeq(run'.task_queue[run.calls], LAMBDA task : task = StopSignal))
                = Cardinality({t \in WorkersOf(run.calls) : thr[t].pc # "idle"})
         ]_vars
    /\ [][\A t \in Threads :
             (thr[t].pc # "idle" /\ thr'[t].pc = "idle") =>
                  /\ thr[t].pc = "poll"
                  /\ Head(run.task_queue[CallOf(t)]) = StopSignal
                  /\ run'.task_queue[CallOf(t)] = Tail(run.task_queue[CallOf(t)])
         ]_vars
    /\ (run.phase = "shutdown") ~> (\A t \in Threads : thr[t].pc = "idle")

\* C15 witness: the call has returned, both workers have ended and the stop
\* signals are gone from the queue
C15_Witness ==
    /\ run.mode = "queue" /\ run.calls = 1 /\ run.phase = "idle"
    /\ \A t \in Threads : thr[t].pc = "idle"
    /\ run.task_queue[1] = <<>>

\* C16: a call of batch_query_keywords_parallel with a non-empty list runs the
\* strategy given by the number of endpoints and of unique keywords: sequential
\* batches on one endpoint; with several endpoints direct fan-out for up to 100
\* unique keywords and queue mode above.
C16_StrategyByCounts ==
    (run.mode \in {"single", "manager"} /\ run.calls > 0) =>
        run.strategy = IF Cardinality(Configured(run.mode)) = 1 THEN "single"
                       ELSE IF Cardinality(NormalizedInput) <= 100 THEN "direct"
                       ELSE "queue"

\* C17: in direct fan-out the requests of one call carry every unique keyword,
\* that is every normalized key, to one endpoint only.
C17_OneEndpointPerKeyword ==
    run.mode = "direct" =>
        \A w1, w2 \in run.wire :
            normalize_keyword(w1[1]) = normalize_keyword(w2[1]) => w1[2] = w2[2]

\* an endpoint is handed keywords in this step: a shard of direct fan-out is
\* submitted to thread t, or queue worker t takes a task
Assigned(t) ==
    /\ run'.mode \in {"direct", "queue"}
    /\ thr[t].pc \in {"idle", "poll"}
    /\ thr'[t].pc = "next"

\* C18: no endpoint is handed a batch in a state where its circuit is open and
\* its recovery interval has not elapsed, neither by the sharding of direct
\* fan-out nor by the routing of a queue worker.
C18_NoBatchToOpenEndpoint ==
    [][\A t \in AllThreads :
          Assigned(t) => ~CircuitBlocks(api_status[thr'[t].api])]_vars

\* C20: as long as no endpoint is configured, or every configured endpoint has
\* had its circuit open within the recovery interval since the call started, the
\* call has issued no request, no thread of it is in a request, and its result
\* is the empty map.
C20_UnavailableGivesEmpty ==
    run.unavailable =>
        /\ run.sent = EmptyBag
        /\ run.results = <<>>
        /\ \A t \in AllThreads :
              InCall(t) => thr[t].pc \notin {"request", "await", "interval"}

\* C20 witness: a queue-mode call with two keywords, started while the circuits
\* of all endpoints were open, has returned and its workers have ended; the
\* endpoints have been unavailable throughout
C20_Witness ==
    /\ run.unavailable /\ run.mode = "queue"
    /\ run.calls = 1 /\ run.phase = "idle"
    /\ Len(run.keywords_list) = 2
    /\ \A t \in AllThreads : thr[t].pc = "idle"

\* C21: no failure propagates as an exception to the caller of
\* batch_query_keywords_parallel. The call is never left by an exception; when
\* batch_query_keywords raises, or when the strategy set-up failed, the call
\* returns the empty map; and a batch whose request ends without a recorded
\* success adds nothing to the result set.
C21_NoExceptionToCaller ==
    [][/\ run'.phase \in {"idle", "running"}
       /\ \A t \in Threads :
             thr[t].pc = "raised" /\ thr'[t].pc # "raised" =>
                run'.phase = "idle" /\ run'.results = <<>>
       /\ run'.strategy = "failed" => run'.phase = "idle" /\ run'.results = <<>>
       /\ \A t \in Threads :
             /\ Answered(t) /\ thr'[t].pc = "next"
             /\ ~RecordsSuccess(thr[t].api)
             => thr'[t].keyword_data = thr[t].keyword_data]_vars

\* C21 witness: a single-endpoint call whose batch result made
\* batch_query_keywords raise has returned the empty map
C21_Witness ==
    /\ run.mode = "single" /\ run.strategy = "failed"
    /\ run.phase = "idle" /\ run.results = <<>>
    /\ attempts[GlobalApi] > 0

\* caller c returns from method in this step
Returns(c, method) ==
    /\ mon.call[c].stack # <<>>
    /\ mon'.call[c].stack = <<>>
    /\ mon'.call[c].done[1].method = method

\* C22: whenever get_adaptive_batch_size returns for an endpoint with
\* successful_requests s of total_requests t on record (success_rate 1 when
\* t = 0), it returns 5 when s/t > 0.9, 4 when 0.7 < s/t <= 0.9, 3 when
\* 0.5 < s/t <= 0.7, and 2 or 3 when s/t <= 0.5; the value is always in 1..5.
C22_AdaptiveBatchSizeTable ==
    [][\A c \in Callers :
          Returns(c, "get_adaptive_batch_size") =>
             LET st == api_status[mon'.call[c].done[1].api]
                 s == IF st.total_requests = 0 THEN 1 ELSE st.successful_requests
                 t == IF st.total_requests = 0 THEN 1 ELSE st.total_requests
                 size == mon'.call[c].ret[1]
             IN /\ size \in 1..5
                /\ st.registered =>
                      /\ 10 * s > 9 * t => size = 5
                      /\ 10 * s > 7 * t /\ 10 * s <= 9 * t => size = 4
                      /\ 2 * s > t /\ 10 * s <= 7 * t => size = 3
                      /\ 2 * s <= t => size \in 2..3]_vars

\* C22 witness: get_adaptive_batch_size has returned the floor for an endpoint
\* with exactly half of MaxCount requests answered
C22_Witness ==
    \E c \in Callers :
        /\ mon.call[c].ret = <<2>>
        /\ mon.call[c].done # <<>>
        /\ mon.call[c].done[1].method = "get_adaptive_batch_size"
        /\ api_status[mon.call[c].done[1].api].total_requests = MaxCount
        /\ 2 * api_status[mon.call[c].done[1].api].successful_requests = MaxCount

\* the keywords of a sequence of batches, in order
RECURSIVE Flatten(_)
Flatten(batches) ==
    IF batches = <<>> THEN <<>> ELSE Head(batches) \o Flatten(Tail(batches))

\* the number of different normalized keywords in a list
UniqueCount(keywords_list) ==
    Cardinality({normalize_keyword(keywords_list[i]) : i \in 1..Len(keywords_list)}
                \ {<<>>})

\* C23: with one endpoint, the n unique keywords of a list are split at batch
\* size b into ceil(n/b) batches that partition them in order, all of size b
\* but the last, which has 1..b; a batch is requested only while no other
\* request is under way and the batches before it are finished, in the order
\* of the partition; and when every batch was answered with success the
\* result has n entries.
C23_BatchesPartition ==
    [][LET n == UniqueCount(run'.keywords_list)
           b == run.batch_size
           q == thr'[GlobalApi].queue
           t == GlobalApi
       IN /\ run.phase = "idle" /\ run'.phase = "running" =>
               /\ Len(q) = (n + b - 1) \div b
               /\ [i \in 1..Len(Flatten(q)) |-> normalize_keyword(Flatten(q)[i])]
                     = SubSeq(DistinctKeywords, 1, n)
               /\ \A k \in 1..(Len(q) - 1) : Len(q[k]) = b
               /\ Len(q[Len(q)]) \in 1..b
          /\ Gets(t) =>
               /\ \A u \in Threads \ {t} : thr[u].pc = "idle"
               /\ LET rest == Flatten(<<thr[t].batch>> \o thr[t].queue)
                  IN /\ Len(rest) <= n
                     /\ (n - Len(rest)) % b = 0
                     /\ [i \in 1..Len(rest) |-> normalize_keyword(rest[i])]
                           = SubSeq(DistinctKeywords, n - Len(rest) + 1, n)
          /\ /\ run.phase = "running" /\ run'.phase = "idle"
             /\ api_status[GlobalApi].successful_requests = (n + b - 1) \div b
             => Cardinality(DOMAIN run'.results) = n]_vars

\* C23 witness: 12 unique keywords at batch size 5 were sent as 3 batches, all
\* answered, and the call has returned 12 entries
C23_Witness ==
    /\ run.mode = "single" /\ run.batch_size = 5 /\ run.phase = "idle"
    /\ UniqueCount(run.keywords_list) = 12
    /\ attempts[GlobalApi] = 3
    /\ api_status[GlobalApi].successful_requests = 3
    /\ Cardinality(DOMAIN run.results) = 12

\* the map DirectParallelStrategy.execute_query returns for keywords_list when
\* the endpoints are fresh: the items of the shards of the endpoints that answer
DirectMap(keywords_list) ==
    LET fresh == [e \in Endpoints |-> IF e = GlobalApi THEN NewStatus ELSE NoStatus]
        shards == _shard_keywords(DictValues(UniqueLower(keywords_list, <<>>)), fresh)
        sent(e) == DictValues(UniqueNormalized(shards[e], <<>>))
        keys == UNION { {sent(e)[i] : i \in 1..Len(sent(e))} :
                         e \in {a \in Endpoints : Answers(a)} }
    IN [keyword \in keys |-> [keyword |-> keyword, metrics |-> "valid"]]

\* C24: for the same keywords and the same endpoint behaviour the direct and
\* the queue strategy return the same map: whichever of the two has run, with
\* every task taken and every thread ended when it returned, the map it has
\* returned is the map the direct strategy returns.
C24_SameMapEitherStrategy ==
    /\ run.calls = 1 /\ run.phase = "idle"
    /\ \A t \in Threads : thr[t].pc = "idle"
    /\ \A i \in 1..Len(run.task_queue) : run.task_queue[i] = <<>>
    => run.results = DirectMap(run.keywords_list)

\* C25: the map a call returns does not depend on the order of the input
\* keywords: a direct-strategy call that has returned, every shard completed,
\* has returned the map the direct strategy returns for every list that holds
\* the same keywords in another order.
C25_OrderIndependent ==
    /\ run.mode = "direct" /\ run.calls = 1 /\ run.phase = "idle"
    /\ \A t \in Threads : thr[t].pc = "idle"
    => \A other \in StrategyKeywordLists :
          {other[i] : i \in 1..Len(other)}
             = {run.keywords_list[i] : i \in 1..Len(run.keywords_list)}
          => run.results = DirectMap(other)

\* C26: record_request for an endpoint the monitor has no entry of registers
\* it, records the outcome and returns with the lock released: a thread that
\* holds the lock in record_request and finds the endpoint unregistered gets
\* to the return of that call, with the endpoint registered, the request
\* counted and the lock not held by the thread.
C26_LazyRegistration ==
    \A c \in Callers :
        (/\ Len(mon.call[c].stack) = 1
         /\ Top(c).method = "record_request"
         /\ Top(c).pc = "locked"
         /\ ~api_status[Top(c).api].registered)
        ~> (/\ mon.call[c].stack = <<>>
            /\ mon.call[c].done # <<>>
            /\ mon.call[c].done[1].method = "record_request"
            /\ api_status[mon.call[c].done[1].api].registered
            /\ api_status[mon.call[c].done[1].api].total_requests >= 1
            /\ mon.lock # c)

\* C30: get_best_api returns, with the lock released, None or one of the
\* listed endpoints, and None only for a list without an endpoint the monitor
\* has no entry of: a thread that has entered get_best_api gets to its return.
C30_BestApiReturned ==
    \A c \in Callers :
        (/\ mon.call[c].stack # <<>>
         /\ mon.call[c].stack[1].method = "get_best_api")
        ~> (/\ mon.call[c].stack = <<>>
            /\ mon.call[c].done # <<>>
            /\ mon.call[c].done[1].method = "get_best_api"
            /\ mon.lock # c
            /\ LET api_urls == mon.call[c].done[1].api_urls
                   listed == {api_urls[i] : i \in 1..Len(api_urls)}
               IN /\ mon.call[c].ret[1] \in listed \cup {0}
                  /\ mon.call[c].ret[1] = 0 =>
                        \A e \in listed : api_status[e].registered)

\* collect_site_data returns in this step
Collected == site.phase = "idle" /\ (site'.phase = "collected" \/ site'.cycles # site.cycles)

\* C28: whenever collect_site_data has compared a sitemap with the previous
\* snapshot, a URL of the sitemap is among the URLs found updated if and only
\* if the snapshot has no item of it, or it has one and the URL's lastmod in
\* the sitemap is non-empty, differs from the stored lastmod and has today's
\* date; so a known URL whose lastmod changed to another date is not found.
C28_UpdateDetection ==
    [][Collected =>
          \A i \in 1..Len(site'.sitemap_data) :
             LET url == site'.sitemap_data[i][1]
                 lastmod == site'.sitemap_data[i][2]
                 stored == {site.previous_data[j].lastmod :
                              j \in {k \in 1..Len(site.previous_data) :
                                        site.previous_data[k].url = url}}
             IN url \in Elems(site'.found_urls)
                   <=> \/ stored = {}
                       \/ /\ lastmod # <<>>
                          /\ lastmod \notin stored
                          /\ lastmod[1] = site.today]_vars

\* C28 witness: in one comparison a known URL whose lastmod changed to
\* today's date was found updated and a known URL whose lastmod changed to
\* another date was not
C28_Witness ==
    /\ site.phase = "collected"
    /\ \E i, j \in 1..Len(site.sitemap_data) : \E k, l \in 1..Len(site.previous_data) :
          /\ site.previous_data[k].url = site.sitemap_data[i][1]
          /\ site.previous_data[k].lastmod # site.sitemap_data[i][2]
          /\ site.sitemap_data[i][2] # <<>>
          /\ site.sitemap_data[i][2][1] = site.today
          /\ site.sitemap_data[i][1] \in Elems(site.found_urls)
          /\ site.previous_data[l].url = site.sitemap_data[j][1]
          /\ site.previous_data[l].lastmod # site.sitemap_data[j][2]
          /\ site.sitemap_data[j][2] # <<>>
          /\ site.sitemap_data[j][2][1] # site.today
          /\ site.sitemap_data[j][1] \notin Elems(site.found_urls)

\* C27: a missing key means skip: whenever process_site_updates returns, a
\* URL whose keyword is not a key of the result map has not been written to
\* the persisted snapshot (the snapshot holds no item of it that was not there
\* before) and has not been submitted to the metrics API.
C27_MissingKeySkipped ==
    [][site.phase = "resolved" /\ site'.phase = "idle" =>
          \A i \in 1..Len(site.site_data.url_keywords_map) :
             LET url == site.site_data.url_keywords_map[i][1]
                 keyword == site.site_data.url_keywords_map[i][2]
             IN keyword \notin KeySet(site.global_keyword_data) =>
                   /\ \A j \in 1..Len(site'.previous_data) :
                         site'.previous_data[j].url = url =>
                            site'.previous_data[j] \in Elems(site.previous_data)
                   /\ url \notin KeySet(site'.submitted)]_vars

\* C29: a configuration without a valid endpoint fails fast: an orchestrator
\* whose configuration holds no endpoint never runs a resolve; no call of it
\* with keywords has been made, no keyword was sent and no request issued.
C29_ZeroEndpointsFailFast ==
    run.mode = "none" =>
       /\ run.calls = 0
       /\ run.sent = EmptyBag
       /\ \A e \in Endpoints : attempts[e] = 0

\* C31: direct fan-out weights the shards by health score: whenever
\* DirectParallelStrategy.execute_query submits its shards, an endpoint whose
\* score (its success_rate, 0 when is_api_available refused it) is strictly
\* higher than another endpoint's is handed more keywords than that endpoint.
C31_HigherScoreMoreKeywords ==
    [][/\ run.mode = "direct" /\ run.phase = "idle" /\ run'.phase = "running"
       => \A a, b \in Endpoints :
             ScoreAbove(HealthScore(api_status[a]), HealthScore(api_status[b]))
             => Len(Flatten(thr'[a].queue)) > Len(Flatten(thr'[b].queue))]_vars

\* the statuses with no consecutive failure and at most MaxCount requests
SteadyStatuses ==
    { Replay(NewStatus, total - successes, successes) :
         <<total, successes>> \in { p \in (0..MaxCount) \X (0..MaxCount) :
                                       p[2] <= p[1] /\ (p[1] = 0 \/ p[2] > 0) } }

\* the success_rate of a is at least that of b
RateAtLeast(a, b) ==
    LET sa == IF a.total_requests = 0 THEN 1 ELSE a.successful_requests
        ta == IF a.total_requests = 0 THEN 1 ELSE a.total_requests
        sb == IF b.total_requests = 0 THEN 1 ELSE b.successful_requests
        tb == IF b.total_requests = 0 THEN 1 ELSE b.total_requests
    IN sa * tb >= sb * ta

\* C32: whenever get_adaptive_interval returns, the value (in tenths of a
\* second) is at least the floor, max(api_request_interval, 2.0) seconds; for
\* an endpoint with k > 0 consecutive failures it is the floor times
\* min(k + 1, 4); for an endpoint with no consecutive failure no endpoint
\* with no consecutive failure and an equal or higher success_rate gets a
\* longer interval. The floor is at least 2 s whatever interval is configured.
C32_AdaptiveIntervalFloor ==
    [][\A c \in Callers :
          Returns(c, "get_adaptive_interval") =>
             LET st == api_status[mon'.call[c].done[1].api]
                 k == st.consecutive_failures
                 floor == Max(ApiRequestInterval, 2) * 10
                 interval == mon'.call[c].ret[1]
             IN /\ interval >= floor
                /\ \A request_interval \in 0..(ApiRequestInterval + 2) :
                      /\ AdaptiveInterval(st, request_interval) >= 20
                      /\ AdaptiveInterval(st, request_interval) >= request_interval * 10
                /\ st.registered /\ k > 0 => interval = floor * Min(k + 1, 4)
                /\ st.registered /\ k = 0 =>
                      \A other \in SteadyStatuses :
                         RateAtLeast(other, st) => AdaptiveIntervalTenths(other) <= interval]_vars

\* C32 witness: get_adaptive_interval has returned four times the floor for an
\* endpoint with more than three consecutive failures
C32_Witness ==
    \E c \in Callers :
        /\ mon.call[c].done # <<>>
        /\ mon.call[c].done[1].method = "get_adaptive_interval"
        /\ mon.call[c].done[1].api = GlobalApi
        /\ api_status[GlobalApi].consecutive_failures > 3
        /\ mon.call[c].ret = <<4 * 10 * Max(ApiRequestInterval, 2)>>

\* C38: in every state of the monitor, for every registered endpoint, the
\* circuit is open exactly when consecutive_failures has reached the threshold,
\* an open circuit has its circuit_open_time set, and
\* 0 <= successful_requests <= total_requests.
C38_StatusConsistent ==
    \A e \in Endpoints :
        api_status[e].registered =>
           /\ api_status[e].is_circuit_open
                 <=> api_status[e].consecutive_failures >= ApiCircuitBreakerThreshold
           /\ api_status[e].is_circuit_open => api_status[e].circuit_open_time # NoTime
           /\ 0 <= api_status[e].successful_requests
           /\ api_status[e].successful_requests <= api_status[e].total_requests

\* C38 witness: a circuit has opened, a recovery trial was admitted and failed,
\* and the endpoint is back to a closed circuit with one consecutive failure
C38_Witness ==
    /\ api_status[GlobalApi].total_requests > ApiCircuitBreakerThreshold
    /\ api_status[GlobalApi].successful_requests = 0
    /\ ~api_status[GlobalApi].is_circuit_open
    /\ api_status[GlobalApi].consecutive_failures = 1

\* C39: no recorded outcome is lost and the lock is not held across a request:
\* in every state, for every registered endpoint, total_requests is the number
\* of record_request calls that have returned for it since its status was
\* created and successful_requests the number of those that reported a
\* success, whatever the interleaving of the callers; and the thread that
\* holds the monitor's lock has no requests.get in flight.
C39_NoOutcomeLost ==
    /\ \A e \in Endpoints :
          api_status[e].registered =>
             /\ api_status[e].total_requests = mon.recorded[e].calls
             /\ api_status[e].successful_requests = mon.recorded[e].successes
    /\ \A c \in Callers : mon.lock = c => mon.call[c].request = 0

\* C39 witness: after a first recorded outcome one thread is in the middle of
\* record_request for the endpoint, holding the lock, while the other has
\* entered record_request for the same endpoint and waits for the lock
C39_Witness ==
    \E c, d \in Callers :
        /\ mon.call[c].stack # <<>> /\ mon.call[d].stack # <<>>
        /\ Top(c).method = "record_request" /\ Top(c).pc = "loaded"
        /\ Top(d).method = "record_request" /\ Top(d).pc = "acquire"
        /\ Top(c).api = Top(d).api
        /\ mon.lock = c
        /\ mon.recorded[Top(c).api].calls > 0

\* C40: the health queries change nothing: a step in which get_health_summary,
\* get_adaptive_batch_size or get_adaptive_interval returns leaves the status
\* and the response times of every endpoint as they were; so does a step in
\* which is_api_available returns false or returns for an endpoint whose
\* circuit is closed; a step in which it admits a recovery trial changes
\* nothing but is_circuit_open and consecutive_failures of that endpoint.
C40_QueriesChangeNothing ==
    [][\A c \in Callers :
          /\ \A method \in HealthQueries :
                Returns(c, method) =>
                   /\ api_status' = api_status
                   /\ mon'.recent_response_times = mon.recent_response_times
          /\ Returns(c, "is_api_available") =>
                LET e == mon'.call[c].done[1].api
                IN /\ mon'.recent_response_times = mon.recent_response_times
                   /\ \A a \in Endpoints \ {e} : api_status'[a] = api_status[a]
                   /\ mon'.call[c].ret = <<FALSE>> \/ ~api_status[e].is_circuit_open
                         => api_status'[e] = api_status[e]
                   /\ api_status'[e] = [api_status[e] EXCEPT
                         !.is_circuit_open = api_status'[e].is_circuit_open,
                         !.consecutive_failures = api_status'[e].consecutive_failures]]_vars

\* C40 witness: is_api_available has admitted a recovery trial for an endpoint
\* whose requests all failed: the circuit is closed again, the count of
\* failures is zero, and a thread holds the answer true
C40_Witness ==
    \E c \in Callers :
        /\ mon.call[c].done # <<>>
        /\ mon.call[c].done[1].method = "is_api_available"
        /\ mon.call[c].done[1].api = GlobalApi
        /\ mon.call[c].ret = <<TRUE>>
        /\ api_status[GlobalApi].total_requests >= ApiCircuitBreakerThreshold
        /\ api_status[GlobalApi].successful_requests = 0
        /\ ~api_status[GlobalApi].is_circuit_open
        /\ api_status[GlobalApi].consecutive_failures = 0
        /\ api_status[GlobalApi].circuit_open_time # NoTime

\* C34: no endpoint is locked out for good: whenever is_api_available would
\* refuse an endpoint, then, as time passes, a state follows in which
\* is_api_available accepts it.
C34_NoPermanentLockout ==
    \A e \in Endpoints :
        ~IsApiAvailable(api_status[e]) ~> IsApiAvailable(api_status[e])

\* queue worker t ends a batch in this step
FinishesBatch(t) ==
    run.mode = "queue" /\ thr[t].pc = "done" /\ thr'[t].pc = "poll"

\* C33: whenever a queue worker has executed a batch, its result is merged into
\* the results of its call and the worker then sleeps for what is left of the
\* adaptive interval of its endpoint after the time the batch took, and not at
\* all when the batch took at least that interval.
C33_SleepsRemainingInterval ==
    [][\A t \in DOMAIN thr :
          FinishesBatch(t) =>
             /\ CallOf(t) = run.calls
                   => run'.results = DictUpdate(run.results, thr[t].keyword_data)
             /\ 10 * thr'[t].slept
                   = RemainingInterval(api_status[thr[t].api], thr[t].process_time)]_vars

\* C35: the map QueueSchedulerStrategy.execute_query has returned is final:
\* between the return of a queue-mode call and the next call no step adds or
\* changes an entry of its results.
C35_ReturnedMapFinal ==
    [][run.mode = "queue" /\ run.calls > 0 /\ run.phase = "idle" /\ run'.calls = run.calls
          => run'.results = run.results]_vars

\* the stop signals of the call of worker t are on its task queue
StopSignalsPut(t) ==
    \E i \in 1..Len(run.task_queue[CallOf(t)]) : run.task_queue[CallOf(t)][i] = StopSignal

\* C36: once the stop signals of a call are on its queue, a worker of that
\* call that comes to task_queue.get ends there: it takes no further batch.
C36_NoTaskAfterStop ==
    [][\A t \in DOMAIN thr :
          thr[t].pc = "poll" /\ StopSignalsPut(t) => thr'[t].pc \in {"poll", "idle"}]_vars

\* C37: verified data is never lost: in every step of a crawl cycle, an item
\* of the persisted snapshot that carries keyword data and whose URL is in the
\* cycle's sitemap with the lastmod that was stored is still in the snapshot
\* after the step, and the comparison does not find its URL updated.
C37_VerifiedDataKept ==
    [][\A k \in 1..Len(site.previous_data) :
          LET item == site.previous_data[k]
          IN /\ item.keywords_data # <<>>
             /\ \E i \in 1..Len(site'.sitemap_data) :
                   /\ site'.sitemap_data[i][1] = item.url
                   /\ site'.sitemap_data[i][2] = item.lastmod
             => /\ \E j \in 1..Len(site'.previous_data) : site'.previous_data[j] = item
                /\ Collected => item.url \notin Elems(site'.found_urls)]_vars

====
